---- MODULE Spec2Model ----
(***************************************************************************)
(* A model of the backtesting engine (src/src/backtest/mod.rs) and of the  *)
(* order lifecycle (src/src/order/mod.rs).                                 *)
(*                                                                         *)
(* Numbers.  The code computes in f64.  The model computes exactly:        *)
(*   - bar prices and order sizes are integers;                            *)
(*   - the commission rate is an integer number of percent, and every      *)
(*     amount of money (cash, equity) is held in hundredths of a currency  *)
(*     unit, so size * price * (1 + commission) is the integer             *)
(*     size * price * (100 + commission);                                  *)
(*   - a quotient (entry price of an extended position, return_pct) is a   *)
(*     fraction [n, d] in lowest terms;                                    *)
(*   - a timestamp is a number of hours, a chrono::Duration a number of    *)
(*     hours, and Duration::num_days() is the division by 24.              *)
(* Option<T> is a sequence: None is << >> and Some(v) is << v >>.          *)
(***************************************************************************)
EXTENDS Integers, Sequences, FiniteSets, TLC

\* ------------------------------------------------------------------ bounds
\* The longest bar sequence handed to Backtest::new.
MaxBars == 3
\* The longest order list one Strategy::next call returns.
MaxOrders == 2
\* The most orders a strategy returns in one run, over all its bars.
MaxRunOrders == 3
\* The largest size of an Order in the order-lifecycle specification.
MaxOrderSize == 3
\* The most closes (Trade::close, Trade::close_portion, Position::close) made
\* on one Trade or Position exercised on its own.
MaxCloses == 2
\* The longest equity curve handed to a metric on its own.
MaxCurveLen == 4
\* The longest trade log handed to a metric on its own.
MaxLogLen == 3
\* The significant binary digits of an f64 (53 in the build).
MantissaBits == 5

\* ------------------------------------------------------------- Option<T>
None == << >>
Some(v) == << v >>
IsSome(o) == o # << >>
Unwrap(o) == o[1]

\* ------------------------------------------------------ exact arithmetic
Abs(x) == IF x < 0 THEN -x ELSE x
Min(a, b) == IF a <= b THEN a ELSE b
Max(a, b) == IF a >= b THEN a ELSE b

RECURSIVE GCD(_, _)
GCD(a, b) == IF b = 0 THEN a ELSE GCD(b, a % b)

\* The quotient n / d (d > 0) in lowest terms.
Rat(n, d) ==
    LET g == GCD(Abs(n), d)
    IN  [n |-> n \div g, d |-> d \div g]
RatInt(k) == [n |-> k, d |-> 1]
RatEq(a, b) == a.n * b.d = b.n * a.d
RatLess(a, b) == a.n * b.d < b.n * a.d
RatAdd(a, b) == Rat(a.n * b.d + b.n * a.d, a.d * b.d)
RatNeg(a) == [n |-> 0 - a.n, d |-> a.d]

RECURSIVE Pow2(_)
Pow2(k) == IF k = 0 THEN 1 ELSE 2 * Pow2(k - 1)

\* Money is held in hundredths of a currency unit.
Money(units) == units * 100

\* --------------------------------------------------------------- inputs
Prices == {50, 60}
Sizes == {50, 100}
Commissions == {0, 1}
GapHours == {24}
StartTimes == {24}
DefaultInitialCash == 10000

\* OHLCV: the fields the engine reads (timestamp, open, close).
OHLCV(timestamp, open, close) ==
    [timestamp |-> timestamp, open |-> open, close |-> close]

\* The bar sequences: up to MaxBars bars, evenly spaced, strictly increasing
\* in time, each bar opening at the close of the bar before it (the first
\* bar's open is free), so that open and close differ in either direction.
BarSequences ==
    UNION { { [i \in 1..n |-> OHLCV(start + (i - 1) * gap, p[i - 1], p[i])] :
                p \in [0..n -> Prices],
                start \in StartTimes, gap \in GapHours }
            : n \in 0..MaxBars }

\* BacktestConfig: the fields the engine reads.
BacktestConfig ==
    [initial_cash : {Money(DefaultInitialCash)},
     commission : Commissions,
     trade_on_open : BOOLEAN]

OrderSide == {"Buy", "Sell"}
OrderType == {"Market", "Limit", "Stop", "StopLimit"}

\* The orders a strategy builds with Strategy::buy and Strategy::sell when it
\* names no limit: Market orders.  Order::new leaves status Pending, filled 0.
StrategyOrders == [side : OrderSide, order_type : {"Market"}, size : Sizes]

\* The order lists one Strategy::next call can return.
OrderLists ==
    UNION { [1..n -> StrategyOrders] : n \in 0..MaxOrders }

\* The orders of a strategy that also names a limit (Strategy::buy then
\* builds a Limit order) or builds its orders with Order::new: any type.
TypedOrders == [side : OrderSide, order_type : OrderType, size : Sizes]

\* The order lists of such a strategy.
TypedOrderLists ==
    UNION { [1..n -> TypedOrders] : n \in 0..MaxOrders }

\* ---------------------------------------------------------------- state
VARIABLES
    config,              \* Backtest.config
    data,                \* Backtest.data
    current_position,    \* Backtest.current_position : Option<Position>
    cash,                \* Backtest.cash
    equity_curve,        \* Backtest.equity_curve
    trades,              \* Backtest.trades
    current_bar_index,   \* Backtest.current_bar_index
    position_entry_bar,  \* Backtest.position_entry_bar : Option<usize>
    pc,                  \* where run() is
    index,               \* run()'s loop index
    pending,             \* the orders of this bar not yet processed
    result,              \* what run() returned
    init_calls,          \* the Strategy::init calls: whether each succeeded
    next_calls,          \* the Strategy::next calls: arguments and outcome
    the_order,               \* an Order
    order_call,          \* the last call made on the order, with its arguments
    fill_result,         \* what the last Order::fill returned : Option<Trade>
    issued,              \* how many orders the strategy has returned so far
    bar_orders,          \* run()'s local `orders`: what the hook returned this bar
    bar_start,           \* the cash, position and trade count the bar began with
    positive_fills,      \* whether every fill so far requested a size > 0
    part,                \* which part is exercised on its own, if any
    the_trade,           \* a Trade
    the_position,        \* a Position
    the_curve,           \* an equity curve handed to a metric
    the_log,             \* a trade log handed to a metric
    the_bars,            \* a bar sequence handed to a metric
    the_return_ann,      \* an annualized return handed to a metric
    part_call,           \* the last call made on the part: op, args, value
    calls,               \* how many calls have changed the part so far
    phase,               \* whether one run executes alone or two side by side
    active,              \* which of the two runs the variables above hold
    other,               \* the Backtest and run() locals of the other run
    strategy_script,     \* what the strategy instances answer, call by call
    alone_result         \* what run() returned when executed alone

vars == << config, data, current_position, cash, equity_curve, trades,
           current_bar_index, position_entry_bar, pc, index, pending, result,
           init_calls, next_calls, issued, bar_orders, bar_start,
           the_order, order_call, fill_result,
           positive_fills, part, the_trade, the_position, the_curve,
           the_log, the_bars, the_return_ann, part_call, calls, phase,
           active, other, strategy_script, alone_result >>

run_vars == << config, data, current_position, cash, equity_curve, trades,
               current_bar_index, position_entry_bar, pc, index, pending,
               result, init_calls, next_calls, issued, bar_orders,
               bar_start >>
order_vars == << the_order, order_call, fill_result, positive_fills >>
metric_vars == << the_log, the_bars, the_return_ann >>
part_vars == << part, the_trade, the_position, the_curve, metric_vars,
               part_call, calls >>

pair_vars == << phase, active, other, strategy_script, alone_result >>

engine == << current_position, cash, trades, position_entry_bar >>

\* What a bar's processing starts from: recorded when the hook has returned.
BarStart ==
    [cash |-> cash, current_position |-> current_position,
     trades |-> Len(trades)]

\* Between two bars there is neither a list of orders nor a record of a start.
NoBarStart == [cash |-> 0, current_position |-> << >>, trades |-> 0]

\* ------------------------------------------------------------- Position
\* Position::new
PositionNew(size, entry_price, entry_time) ==
    [size |-> size, entry_price |-> RatInt(entry_price),
     entry_time |-> entry_time, current_price |-> entry_price]

\* Position::update_price
UpdatePrice(position, price) == [position EXCEPT !.current_price = price]

\* Position::value, in hundredths
PositionValue(position) == Money(position.size * position.current_price)

\* Position::with_stops
PositionWithStops(size, entry_price, entry_time, sl, tp, tag) ==
    [size |-> size, entry_price |-> RatInt(entry_price),
     entry_time |-> entry_time, current_price |-> entry_price,
     sl |-> sl, tp |-> tp, tag |-> tag]

\* Position::pl
PositionPl(position) ==
    LET e == position.entry_price
    IN  IF position.size > 0
        THEN Rat((position.current_price * e.d - e.n) * position.size, e.d)
        ELSE Rat((e.n - position.current_price * e.d) * Abs(position.size), e.d)

\* Position::should_trigger_sl, on the position's own mark price
PositionShouldTriggerSl(position) ==
    IF IsSome(position.sl)
    THEN IF position.size > 0
         THEN position.current_price <= Unwrap(position.sl)
         ELSE position.current_price >= Unwrap(position.sl)
    ELSE FALSE

\* Position::should_trigger_tp, on the position's own mark price
PositionShouldTriggerTp(position) ==
    IF IsSome(position.tp)
    THEN IF position.size > 0
         THEN position.current_price >= Unwrap(position.tp)
         ELSE position.current_price <= Unwrap(position.tp)
    ELSE FALSE

\* ---------------------------------------------------------------- Trade
\* Trade::new
TradeNew(entry_bar, entry_price, entry_time, size, sl, tp, tag) ==
    [entry_bar |-> entry_bar, entry_price |-> entry_price,
     entry_time |-> entry_time, exit_bar |-> None, exit_price |-> None,
     exit_time |-> None, size |-> size, sl |-> sl, tp |-> tp, tag |-> tag]

\* Trade::close
TradeClose(trade, exit_bar, exit_price, exit_time) ==
    [trade EXCEPT !.exit_bar = exit_bar,
                  !.exit_price = Some(exit_price),
                  !.exit_time = Some(exit_time)]

\* A plausible slip: the short branch subtracts the wrong way round.
TradePlShortSignFlipped(trade) ==
    IF IsSome(trade.exit_price)
    THEN LET exit == Unwrap(trade.exit_price)
             e == trade.entry_price
         IN  IF trade.size > 0
             THEN Rat((exit * e.d - e.n) * trade.size, e.d)
             ELSE Rat((exit * e.d - e.n) * Abs(trade.size), e.d)
    ELSE RatInt(0)

\* Trade::pl, a fraction of a currency unit
TradePl(trade) ==
    IF IsSome(trade.exit_price)
    THEN LET exit == Unwrap(trade.exit_price)
             e == trade.entry_price
         IN  IF trade.size > 0
             THEN Rat((exit * e.d - e.n) * trade.size, e.d)
             ELSE Rat((e.n - exit * e.d) * Abs(trade.size), e.d)
    ELSE RatInt(0)

\* Trade::pl_pct
TradePlPct(trade) ==
    IF trade.entry_price.n = 0
    THEN RatInt(0)
    ELSE IF IsSome(trade.exit_price)
         THEN LET exit == Unwrap(trade.exit_price)
                  e == trade.entry_price
              IN  IF trade.size > 0
                  THEN Rat(exit * e.d - e.n, e.n)
                  ELSE Rat(e.n - exit * e.d, e.n)
         ELSE RatInt(0)

\* A plausible slip: the fraction is used as it comes.
ClampPortionMissing(h) == h

\* f64::clamp(0.0, 1.0) of the fraction handed to a partial close; the
\* fraction is counted in halves.
ClampPortion(h) == Max(0, Min(h, 2))

\* size * portion, for a size of which the half is whole
PortionOf(size, h) == (size * ClampPortion(h)) \div 2

\* Trade::close_portion: the trade afterwards
TradeAfterClosePortion(trade, h) ==
    [trade EXCEPT !.size = trade.size - PortionOf(trade.size, h)]

\* Trade::close_portion: the trade returned
TradeClosePortion(trade, h) ==
    TradeNew(trade.entry_bar, trade.entry_price, trade.entry_time,
             PortionOf(trade.size, h), trade.sl, trade.tp, trade.tag)

\* Trade::duration of a closed trade, in hours
TradeDuration(trade) == Unwrap(trade.exit_time) - trade.entry_time

\* Position::close: the position afterwards
PositionAfterClose(position, h) ==
    [position EXCEPT !.size = position.size - PortionOf(position.size, h)]

\* Position::close: the trade returned
PositionCloseTrade(position, h, exit_price, exit_time, exit_bar) ==
    TradeClose(TradeNew(IF IsSome(exit_bar) THEN Unwrap(exit_bar) ELSE 0,
                        position.entry_price, position.entry_time,
                        PortionOf(position.size, h),
                        position.sl, position.tp, position.tag),
               exit_bar, exit_price, exit_time)

\* ------------------------------------------------------- Backtest engine
\* Backtest::new
BacktestNew(d, c) ==
    /\ config = c
    /\ data = d
    /\ current_position = None
    /\ cash = c.initial_cash
    /\ equity_curve = << >>
    /\ trades = << >>
    /\ current_bar_index = 0
    /\ position_entry_bar = None

\* A plausible slip: an order that costs exactly the cash at hand is refused.
OpenPositionRefusesExactCash(size, price, timestamp, current_price) ==
    LET cost == size * price * (100 + config.commission)
    IN  IF cost >= cash
        THEN UNCHANGED engine
        ELSE /\ cash' = cash - cost
             /\ UNCHANGED trades
             /\ IF IsSome(current_position)
                THEN LET position == Unwrap(current_position)
                         e == position.entry_price
                         total_size == position.size + size
                     IN  /\ current_position' =
                                Some([position EXCEPT
                                        !.entry_price =
                                            Rat(position.size * e.n + size * price * e.d,
                                                e.d * total_size),
                                        !.size = total_size,
                                        !.current_price = current_price])
                         /\ UNCHANGED position_entry_bar
                ELSE /\ current_position' =
                            Some(UpdatePrice(PositionNew(size, price, timestamp),
                                             current_price))
                     /\ position_entry_bar' = Some(current_bar_index)

\* A plausible slip: the entry price of an extended position is the plain
\* mean of the old entry price and the new price, not weighted by size.
OpenPositionPlainMean(size, price, timestamp, current_price) ==
    LET cost == size * price * (100 + config.commission)
    IN  IF cost > cash
        THEN UNCHANGED engine
        ELSE /\ cash' = cash - cost
             /\ UNCHANGED trades
             /\ IF IsSome(current_position)
                THEN LET position == Unwrap(current_position)
                         e == position.entry_price
                         total_size == position.size + size
                     IN  /\ current_position' =
                                Some([position EXCEPT
                                        !.entry_price =
                                            Rat(e.n + price * e.d, 2 * e.d),
                                        !.size = total_size,
                                        !.current_price = current_price])
                         /\ UNCHANGED position_entry_bar
                ELSE /\ current_position' =
                            Some(UpdatePrice(PositionNew(size, price, timestamp),
                                             current_price))
                     /\ position_entry_bar' = Some(current_bar_index)

\* A plausible slip: the cost is taken from the cash without asking whether
\* the cash covers it.
OpenPositionUnfunded(size, price, timestamp, current_price) ==
    LET cost == size * price * (100 + config.commission)
    IN  /\ cash' = cash - cost
        /\ UNCHANGED trades
        /\ IF IsSome(current_position)
           THEN LET position == Unwrap(current_position)
                    e == position.entry_price
                    total_size == position.size + size
                IN  /\ current_position' =
                           Some([position EXCEPT
                                   !.entry_price =
                                       Rat(position.size * e.n + size * price * e.d,
                                           e.d * total_size),
                                   !.size = total_size,
                                   !.current_price = current_price])
                    /\ UNCHANGED position_entry_bar
           ELSE /\ current_position' =
                       Some(UpdatePrice(PositionNew(size, price, timestamp),
                                        current_price))
                /\ position_entry_bar' = Some(current_bar_index)

\* Backtest::open_position
OpenPosition(size, price, timestamp, current_price) ==
    LET cost == size * price * (100 + config.commission)
    IN  IF cost > cash
        THEN UNCHANGED engine
        ELSE /\ cash' = cash - cost
             /\ UNCHANGED trades
             /\ IF IsSome(current_position)
                THEN LET position == Unwrap(current_position)
                         e == position.entry_price
                         total_size == position.size + size
                     IN  /\ current_position' =
                                Some([position EXCEPT
                                        !.entry_price =
                                            Rat(position.size * e.n + size * price * e.d,
                                                e.d * total_size),
                                        !.size = total_size,
                                        !.current_price = current_price])
                         /\ UNCHANGED position_entry_bar
                ELSE /\ current_position' =
                            Some(UpdatePrice(PositionNew(size, price, timestamp),
                                             current_price))
                     /\ position_entry_bar' = Some(current_bar_index)

\* A plausible slip: with no position open, a Sell opens a short one.
ClosePositionOpensShort(size, price, current_bar) ==
    IF IsSome(current_position)
    THEN LET position == Unwrap(current_position)
             close_size == Min(size, position.size)
             proceeds == close_size * price * (100 - config.commission)
             entry_bar == IF IsSome(position_entry_bar)
                          THEN Unwrap(position_entry_bar) ELSE 0
             trade == TradeClose(
                          TradeNew(entry_bar, position.entry_price,
                                   position.entry_time, close_size, None, None, None),
                          Some(current_bar_index), price, current_bar.timestamp)
         IN  /\ cash' = cash + proceeds
             /\ trades' = Append(trades, trade)
             /\ IF position.size - close_size <= 0
                THEN /\ current_position' = None
                     /\ position_entry_bar' = None
                ELSE /\ current_position' =
                            Some([position EXCEPT !.size = position.size - close_size])
                     /\ UNCHANGED position_entry_bar
    ELSE /\ cash' = cash + size * price * (100 - config.commission)
         /\ current_position' =
                Some(UpdatePrice(PositionNew(0 - size, price, current_bar.timestamp),
                                 current_bar.close))
         /\ position_entry_bar' = Some(current_bar_index)
         /\ UNCHANGED trades

\* A plausible slip: the requested size is closed, whatever the position holds.
ClosePositionUnclamped(size, price, current_bar) ==
    IF IsSome(current_position)
    THEN LET position == Unwrap(current_position)
             close_size == size
             proceeds == close_size * price * (100 - config.commission)
             entry_bar == IF IsSome(position_entry_bar)
                          THEN Unwrap(position_entry_bar) ELSE 0
             trade == TradeClose(
                          TradeNew(entry_bar, position.entry_price,
                                   position.entry_time, close_size, None, None, None),
                          Some(current_bar_index), price, current_bar.timestamp)
         IN  /\ cash' = cash + proceeds
             /\ trades' = Append(trades, trade)
             /\ IF position.size - close_size <= 0
                THEN /\ current_position' = None
                     /\ position_entry_bar' = None
                ELSE /\ current_position' =
                            Some([position EXCEPT !.size = position.size - close_size])
                     /\ UNCHANGED position_entry_bar
    ELSE UNCHANGED engine

\* A plausible slip: the slot is emptied only when the size falls below zero,
\* so a position closed in full stays in the slot with size zero.
ClosePositionKeepsEmpty(size, price, current_bar) ==
    IF IsSome(current_position)
    THEN LET position == Unwrap(current_position)
             close_size == Min(size, position.size)
             proceeds == close_size * price * (100 - config.commission)
             entry_bar == IF IsSome(position_entry_bar)
                          THEN Unwrap(position_entry_bar) ELSE 0
             trade == TradeClose(
                          TradeNew(entry_bar, position.entry_price,
                                   position.entry_time, close_size, None, None, None),
                          Some(current_bar_index), price, current_bar.timestamp)
         IN  /\ cash' = cash + proceeds
             /\ trades' = Append(trades, trade)
             /\ IF position.size - close_size < 0
                THEN /\ current_position' = None
                     /\ position_entry_bar' = None
                ELSE /\ current_position' =
                            Some([position EXCEPT !.size = position.size - close_size])
                     /\ UNCHANGED position_entry_bar
    ELSE UNCHANGED engine

\* A plausible slip: any Sell empties the slot, whatever is left of the
\* position.
ClosePositionDropsRest(size, price, current_bar) ==
    IF IsSome(current_position)
    THEN LET position == Unwrap(current_position)
             close_size == Min(size, position.size)
             proceeds == close_size * price * (100 - config.commission)
             entry_bar == IF IsSome(position_entry_bar)
                          THEN Unwrap(position_entry_bar) ELSE 0
             trade == TradeClose(
                          TradeNew(entry_bar, position.entry_price,
                                   position.entry_time, close_size, None, None, None),
                          Some(current_bar_index), price, current_bar.timestamp)
         IN  /\ cash' = cash + proceeds
             /\ trades' = Append(trades, trade)
             /\ current_position' = None
             /\ position_entry_bar' = None
    ELSE UNCHANGED engine

\* A plausible slip: the new trade is put at the head of the log.
ClosePositionPrepends(size, price, current_bar) ==
    IF IsSome(current_position)
    THEN LET position == Unwrap(current_position)
             close_size == Min(size, position.size)
             proceeds == close_size * price * (100 - config.commission)
             entry_bar == IF IsSome(position_entry_bar)
                          THEN Unwrap(position_entry_bar) ELSE 0
             trade == TradeClose(
                          TradeNew(entry_bar, position.entry_price,
                                   position.entry_time, close_size, None, None, None),
                          Some(current_bar_index), price, current_bar.timestamp)
         IN  /\ cash' = cash + proceeds
             /\ trades' = << trade >> \o trades
             /\ IF position.size - close_size <= 0
                THEN /\ current_position' = None
                     /\ position_entry_bar' = None
                ELSE /\ current_position' =
                            Some([position EXCEPT !.size = position.size - close_size])
                     /\ UNCHANGED position_entry_bar
    ELSE UNCHANGED engine

\* Backtest::close_position
ClosePosition(size, price, current_bar) ==
    IF IsSome(current_position)
    THEN LET position == Unwrap(current_position)
             close_size == Min(size, position.size)
             proceeds == close_size * price * (100 - config.commission)
             entry_bar == IF IsSome(position_entry_bar)
                          THEN Unwrap(position_entry_bar) ELSE 0
             trade == TradeClose(
                          TradeNew(entry_bar, position.entry_price,
                                   position.entry_time, close_size, None, None, None),
                          Some(current_bar_index), price, current_bar.timestamp)
         IN  /\ cash' = cash + proceeds
             /\ trades' = Append(trades, trade)
             /\ IF position.size - close_size <= 0
                THEN /\ current_position' = None
                     /\ position_entry_bar' = None
                ELSE /\ current_position' =
                            Some([position EXCEPT !.size = position.size - close_size])
                     /\ UNCHANGED position_entry_bar
    ELSE UNCHANGED engine

\* A plausible slip: the trade_on_open flag read the wrong way round.
ProcessOrderFlagInverted(order, bar) ==
    LET price == IF config.trade_on_open THEN bar.close ELSE bar.open
    IN  IF order.side = "Buy"
        THEN OpenPosition(order.size, price, bar.timestamp, bar.close)
        ELSE ClosePosition(order.size, price, bar)

\* A plausible slip: only a Buy reads the flag; a Sell always fills at the close.
ProcessOrderSellAtClose(order, bar) ==
    LET price == IF config.trade_on_open THEN bar.open ELSE bar.close
    IN  IF order.side = "Buy"
        THEN OpenPosition(order.size, price, bar.timestamp, bar.close)
        ELSE ClosePosition(order.size, bar.close, bar)

\* Backtest::process_order
ProcessOrder(order, bar) ==
    LET price == IF config.trade_on_open THEN bar.open ELSE bar.close
    IN  IF order.side = "Buy"
        THEN OpenPosition(order.size, price, bar.timestamp, bar.close)
        ELSE ClosePosition(order.size, price, bar)

\* A plausible slip: the position is valued at the mark it already carries.
CalculateEquityStaleMark(close) ==
    IF IsSome(current_position)
    THEN cash + PositionValue(Unwrap(current_position))
    ELSE cash

\* Backtest::calculate_equity, after the position was marked at `close`
CalculateEquity(close) ==
    IF IsSome(current_position)
    THEN cash + PositionValue(UpdatePrice(Unwrap(current_position), close))
    ELSE cash

\* A plausible slip: every entry stamped with the first bar's time.
EquityEntryFirstTimestamp(bar) ==
    << data[1].timestamp, CalculateEquity(bar.close) >>

\* The entry pushed on the equity curve for `bar`, lines 117-118
EquityEntry(bar) == << bar.timestamp, CalculateEquity(bar.close) >>

RECURSIVE SeqMax(_, _)
SeqMax(s, seed) ==
    IF s = << >> THEN seed ELSE SeqMax(Tail(s), Max(seed, Head(s)))

RECURSIVE SeqSum(_)
SeqSum(s) == IF s = << >> THEN 0 ELSE Head(s) + SeqSum(Tail(s))

\* ------------------------------------------------------ drawdown metrics
RECURSIVE RatSum(_)
RatSum(s) == IF s = << >> THEN RatInt(0) ELSE RatAdd(Head(s), RatSum(Tail(s)))

\* A plausible slip: the peak starts at the highest equity of the whole
\* curve, not at its first entry.
DrawdownStartGlobalPeak(equity_curve_arg) ==
    [max_drawdown |-> RatInt(0), current_drawdown |-> RatInt(0),
     peak_equity |->
         SeqMax([i \in 1..Len(equity_curve_arg) |-> equity_curve_arg[i][2]], 0),
     drawdown_start |-> equity_curve_arg[1][1],
     max_dd_duration |-> 0, current_dd_duration |-> 0,
     drawdowns |-> << >>, dd_durations |-> << >>]

\* Calculations::calculate_drawdown_metrics: the locals before the loop
DrawdownStart(equity_curve_arg) ==
    [max_drawdown |-> RatInt(0), current_drawdown |-> RatInt(0),
     peak_equity |-> equity_curve_arg[1][2],
     drawdown_start |-> equity_curve_arg[1][1],
     max_dd_duration |-> 0, current_dd_duration |-> 0,
     drawdowns |-> << >>, dd_durations |-> << >>]

\* A plausible slip: a new high ends the drawdown but does not move the peak.
DrawdownStepKeepsPeak(acc, entry) ==
    LET timestamp == entry[1]
        equity == entry[2]
    IN  IF equity > acc.peak_equity
        THEN LET ended == RatLess(acc.current_drawdown, RatInt(0))
             IN  [acc EXCEPT
                    !.drawdowns = IF ended
                                  THEN Append(@, RatNeg(acc.current_drawdown))
                                  ELSE @,
                    !.dd_durations = IF ended
                                     THEN Append(@, acc.current_dd_duration)
                                     ELSE @,
                    !.current_drawdown = RatInt(0),
                    !.current_dd_duration = 0,
                    !.drawdown_start = timestamp]
        ELSE LET current == Rat(equity - acc.peak_equity, acc.peak_equity)
                 duration == timestamp - acc.drawdown_start
                 deeper == RatLess(current, acc.max_drawdown)
             IN  [acc EXCEPT
                    !.current_drawdown = current,
                    !.current_dd_duration = duration,
                    !.max_drawdown = IF deeper THEN current ELSE @,
                    !.max_dd_duration = IF deeper THEN duration ELSE @]

\* One turn of the loop of lines 95-116
DrawdownStep(acc, entry) ==
    LET timestamp == entry[1]
        equity == entry[2]
    IN  IF equity > acc.peak_equity
        THEN LET ended == RatLess(acc.current_drawdown, RatInt(0))
             IN  [acc EXCEPT
                    !.drawdowns = IF ended
                                  THEN Append(@, RatNeg(acc.current_drawdown))
                                  ELSE @,
                    !.dd_durations = IF ended
                                     THEN Append(@, acc.current_dd_duration)
                                     ELSE @,
                    !.peak_equity = equity,
                    !.current_drawdown = RatInt(0),
                    !.current_dd_duration = 0,
                    !.drawdown_start = timestamp]
        ELSE LET current == Rat(equity - acc.peak_equity, acc.peak_equity)
                 duration == timestamp - acc.drawdown_start
                 deeper == RatLess(current, acc.max_drawdown)
             IN  [acc EXCEPT
                    !.current_drawdown = current,
                    !.current_dd_duration = duration,
                    !.max_drawdown = IF deeper THEN current ELSE @,
                    !.max_dd_duration = IF deeper THEN duration ELSE @]

\* The loop of lines 95-116 over the first k entries
RECURSIVE DrawdownLoop(_, _)
DrawdownLoop(equity_curve_arg, k) ==
    IF k = 0
    THEN DrawdownStart(equity_curve_arg)
    ELSE DrawdownStep(DrawdownLoop(equity_curve_arg, k - 1), equity_curve_arg[k])

\* Calculations::calculate_drawdown_metrics, for positive equity values.
\* Durations are in hours.
CalculateDrawdownMetrics(equity_curve_arg) ==
    IF Len(equity_curve_arg) < 2
    THEN [max_drawdown |-> RatInt(0), avg_drawdown |-> RatInt(0),
          max_dd_duration |-> 0, avg_dd_duration |-> 0]
    ELSE LET acc == DrawdownLoop(equity_curve_arg, Len(equity_curve_arg))
             ongoing == RatLess(acc.current_drawdown, RatInt(0))
             drawdowns == IF ongoing
                          THEN Append(acc.drawdowns, RatNeg(acc.current_drawdown))
                          ELSE acc.drawdowns
             dd_durations == IF ongoing
                             THEN Append(acc.dd_durations, acc.current_dd_duration)
                             ELSE acc.dd_durations
             total == RatSum(drawdowns)
         IN  [max_drawdown |-> acc.max_drawdown,
              avg_drawdown |->
                  IF drawdowns = << >> THEN RatInt(0)
                  ELSE Rat(0 - total.n, total.d * Len(drawdowns)),
              max_dd_duration |-> acc.max_dd_duration,
              avg_dd_duration |->
                  IF dd_durations = << >> THEN 0
                  ELSE SeqSum(dd_durations) \div Len(dd_durations)]

\* ------------------------------------------------------ trade statistics
\* chrono::Duration::num_days of a duration in hours: whole days, truncated
\* toward zero
NumDays(hours) == IF hours >= 0 THEN hours \div 24 ELSE 0 - ((0 - hours) \div 24)

\* f64::INFINITY, written like a quotient so that a field holds one shape
Infinity == [n |-> 1, d |-> 0]

\* a / b for b > 0
RatDiv(a, b) == Rat(a.n * b.d, a.d * b.n)

\* The loop of lines 17-29 of calculate_exposure_time over the first k trades
RECURSIVE ExposureLoop(_, _, _)
ExposureLoop(data_arg, trades_arg, k) ==
    IF k = 0
    THEN [exposed_days |-> 0, in_position |-> FALSE,
          position_start |-> data_arg[1].timestamp]
    ELSE LET acc == ExposureLoop(data_arg, trades_arg, k - 1)
             trade == trades_arg[k]
         IN  IF ~acc.in_position
             THEN [acc EXCEPT !.in_position = TRUE,
                              !.position_start = trade.entry_time]
             ELSE [acc EXCEPT
                     !.exposed_days =
                         IF IsSome(trade.exit_time)
                         THEN @ + NumDays(Unwrap(trade.exit_time)
                                          - acc.position_start)
                         ELSE @,
                     !.in_position = FALSE]

\* A plausible slip: the quotient is taken whatever total_days is, and is
\* infinite or not a number when total_days is 0.
CalculateExposureTimeUnguarded(data_arg, trades_arg) ==
    IF data_arg = << >>
    THEN RatInt(0)
    ELSE LET acc == ExposureLoop(data_arg, trades_arg, Len(trades_arg))
             last == data_arg[Len(data_arg)].timestamp
             exposed_days ==
                 IF acc.in_position
                 THEN acc.exposed_days + NumDays(last - acc.position_start)
                 ELSE acc.exposed_days
             total_days == NumDays(last - data_arg[1].timestamp)
         IN  IF total_days = 0
             THEN [n |-> exposed_days, d |-> 0]
             ELSE Rat(exposed_days, total_days)

\* Calculations::calculate_exposure_time
CalculateExposureTime(data_arg, trades_arg) ==
    IF data_arg = << >>
    THEN RatInt(0)
    ELSE LET acc == ExposureLoop(data_arg, trades_arg, Len(trades_arg))
             last == data_arg[Len(data_arg)].timestamp
             exposed_days ==
                 IF acc.in_position
                 THEN acc.exposed_days + NumDays(last - acc.position_start)
                 ELSE acc.exposed_days
             total_days == NumDays(last - data_arg[1].timestamp)
         IN  IF total_days > 0
             THEN Rat(exposed_days, total_days)
             ELSE RatInt(0)

\* self.trades.iter().map(|t| t.pl())
TradePls(trades_arg) == [i \in 1..Len(trades_arg) |-> TradePl(trades_arg[i])]

\* Iterator::fold(0.0, f64::max)
RECURSIVE FoldMax(_, _)
FoldMax(s, seed) ==
    IF s = << >> THEN seed
    ELSE FoldMax(Tail(s), IF RatLess(seed, Head(s)) THEN Head(s) ELSE seed)

\* Iterator::fold(0.0, f64::min)
RECURSIVE FoldMin(_, _)
FoldMin(s, seed) ==
    IF s = << >> THEN seed
    ELSE FoldMin(Tail(s), IF RatLess(Head(s), seed) THEN Head(s) ELSE seed)

\* calculate_results, line 243
BestTrade(trades_arg) == FoldMax(TradePls(trades_arg), RatInt(0))

\* calculate_results, line 244
WorstTrade(trades_arg) == FoldMin(TradePls(trades_arg), RatInt(0))

\* calculate_results, lines 245-249
AvgTrade(trades_arg) ==
    IF trades_arg = << >>
    THEN RatInt(0)
    ELSE LET total == RatSum(TradePls(trades_arg))
         IN  Rat(total.n, total.d * Len(trades_arg))

\* calculate_results, lines 237-241
WinRate(trades_arg) ==
    IF trades_arg = << >>
    THEN RatInt(0)
    ELSE Rat(Cardinality({i \in 1..Len(trades_arg) :
                             RatLess(RatInt(0), TradePl(trades_arg[i]))}),
             Len(trades_arg))

\* The sum of the P&L of the winning trades, line 287
GrossProfit(trades_arg) ==
    RatSum([i \in 1..Len(trades_arg) |->
               IF RatLess(RatInt(0), TradePl(trades_arg[i]))
               THEN TradePl(trades_arg[i]) ELSE RatInt(0)])

\* The sum of the absolute P&L of the losing trades, line 288
GrossLoss(trades_arg) ==
    RatSum([i \in 1..Len(trades_arg) |->
               IF RatLess(TradePl(trades_arg[i]), RatInt(0))
               THEN RatNeg(TradePl(trades_arg[i])) ELSE RatInt(0)])

\* A plausible slip: a log without a losing trade gets 0.0, like an empty one.
ProfitFactorNoInfinity(trades_arg) ==
    LET gross_profit == GrossProfit(trades_arg)
        gross_loss == GrossLoss(trades_arg)
    IN  IF RatLess(RatInt(0), gross_loss)
        THEN RatDiv(gross_profit, gross_loss)
        ELSE RatInt(0)

\* calculate_results, lines 289-295
ProfitFactor(trades_arg) ==
    LET gross_profit == GrossProfit(trades_arg)
        gross_loss == GrossLoss(trades_arg)
    IN  IF RatLess(RatInt(0), gross_loss)
        THEN RatDiv(gross_profit, gross_loss)
        ELSE IF RatLess(RatInt(0), gross_profit)
             THEN Infinity
             ELSE RatInt(0)

\* ------------------------------------------------------- ratio metrics
\* f64 arithmetic rounds every result to the nearest value that has
\* MantissaBits significant binary digits, ties to the even mantissa.  The
\* exponent is not bounded here, so nothing overflows or underflows.
\* RoundPositive rounds a quotient x > 0.
RECURSIVE RoundPositive(_)
RoundPositive(x) ==
    IF x.n >= Pow2(MantissaBits) * x.d
    THEN LET half == RoundPositive(Rat(x.n, 2 * x.d))
         IN  Rat(2 * half.n, half.d)
    ELSE IF x.n < Pow2(MantissaBits - 1) * x.d
         THEN LET twice == RoundPositive(Rat(2 * x.n, x.d))
              IN  Rat(twice.n, 2 * twice.d)
         ELSE LET q == x.n \div x.d
                  rest == 2 * (x.n - q * x.d)
              IN  IF rest < x.d THEN RatInt(q)
                  ELSE IF rest > x.d THEN RatInt(q + 1)
                       ELSE IF q % 2 = 0 THEN RatInt(q) ELSE RatInt(q + 1)

\* The f64 nearest to the quotient x
Float(x) ==
    IF x.n = 0 THEN RatInt(0)
    ELSE IF x.n > 0 THEN RoundPositive(x)
         ELSE RatNeg(RoundPositive(RatNeg(x)))

\* Iterator::sum::<f64>(): a fold from 0.0, rounded after every addition
RECURSIVE FloatSum(_, _)
FloatSum(s, k) ==
    IF k = 0 THEN RatInt(0)
    ELSE Float(RatAdd(FloatSum(s, k - 1), s[k]))

\* a * a, exact
RatSquare(a) == [n |-> a.n * a.n, d |-> a.d * a.d]

\* 0.0 as the value of a ratio metric
ZeroRatio == [kind |-> "zero"]
\* f64::INFINITY as the value of a ratio metric
InfiniteRatio == [kind |-> "infinite"]

\* Calculations::calculate_sqn.  std_dev is the square root of variance, and
\* is > 0.0 exactly when variance is; a value that is not zero is kept as
\* its three parts: sqrt(count) * avg_trade / sqrt(variance).
CalculateSqn(trades_arg) ==
    IF Len(trades_arg) < 2
    THEN ZeroRatio
    ELSE LET count == Len(trades_arg)
             pls == [i \in 1..count |-> Float(TradePl(trades_arg[i]))]
             avg_trade == Float(Rat(FloatSum(pls, count).n,
                                    FloatSum(pls, count).d * count))
             squares == [i \in 1..count |->
                            Float(RatSquare(Float(RatAdd(pls[i],
                                                         RatNeg(avg_trade)))))]
             variance == Float(Rat(FloatSum(squares, count).n,
                                   FloatSum(squares, count).d * count))
         IN  IF variance.n > 0
             THEN [kind |-> "ratio", count |-> count,
                   avg_trade |-> avg_trade, variance |-> variance]
             ELSE ZeroRatio

\* The square root of a quotient q >= 0, kept as q
SqrtOf(q) == [sqrt_of |-> q]

\* calculate_results, line 255: duration.num_days() as f64 / 365.25
Years(duration) == Rat(NumDays(duration) * 4, 1461)

\* The per-bar returns of lines 52-59 (and 150-157) over the first k entries:
\* (curr_equity - prev_equity) / prev_equity wherever prev_equity > 0.0
RECURSIVE EquityReturns(_, _)
EquityReturns(equity_curve_arg, k) ==
    IF k <= 1
    THEN << >>
    ELSE LET prev_equity == equity_curve_arg[k - 1][2]
             curr_equity == equity_curve_arg[k][2]
             before == EquityReturns(equity_curve_arg, k - 1)
         IN  IF prev_equity > 0
             THEN Append(before, Rat(curr_equity - prev_equity, prev_equity))
             ELSE before

\* Calculations::calculate_volatility: sqrt(variance) * sqrt(252)
CalculateVolatility(equity_curve_arg, years) ==
    IF Len(equity_curve_arg) < 2 \/ years.n <= 0
    THEN SqrtOf(RatInt(0))
    ELSE LET returns == EquityReturns(equity_curve_arg, Len(equity_curve_arg))
             count == Len(returns)
             total == RatSum(returns)
             mean_return == Rat(total.n, total.d * count)
             squares == RatSum([i \in 1..count |->
                            RatSquare(RatAdd(returns[i], RatNeg(mean_return)))])
             variance == Rat(squares.n, squares.d * count)
         IN  IF returns = << >>
             THEN SqrtOf(RatInt(0))
             ELSE SqrtOf(Rat(variance.n * 252, variance.d))

\* calculate_results, line 270
RiskFreeRate == Rat(2, 100)

\* A plausible slip: the quotient is taken without looking at the volatility.
SharpeRatioUnguarded(return_ann, risk_free_rate, volatility_ann) ==
    [kind |-> "ratio",
     excess |-> RatAdd(return_ann, RatNeg(risk_free_rate)),
     volatility_ann |-> volatility_ann]

\* calculate_results, lines 271-275: (return_ann - risk_free_rate) /
\* volatility_ann, kept as its two parts
SharpeRatio(return_ann, risk_free_rate, volatility_ann) ==
    IF volatility_ann.sqrt_of.n > 0
    THEN [kind |-> "ratio",
          excess |-> RatAdd(return_ann, RatNeg(risk_free_rate)),
          volatility_ann |-> volatility_ann]
    ELSE ZeroRatio

\* A plausible slip: the returns below zero count as downside, not the
\* returns below the daily risk-free rate.
DownsideReturnsBelowZero(returns, daily_risk_free) ==
    LET below == SelectSeq(returns, LAMBDA r : r.n < 0)
    IN  [i \in 1..Len(below) |-> RatAdd(below[i], RatNeg(daily_risk_free))]

\* Lines 165-174: r - daily_risk_free for the returns r < daily_risk_free
RECURSIVE DownsideReturns(_, _)
DownsideReturns(returns, daily_risk_free) ==
    IF returns = << >>
    THEN << >>
    ELSE LET r == Head(returns)
             rest == DownsideReturns(Tail(returns), daily_risk_free)
         IN  IF RatLess(r, daily_risk_free)
             THEN << RatAdd(r, RatNeg(daily_risk_free)) >> \o rest
             ELSE rest

\* Calculations::calculate_sortino_ratio.  downside_deviation is
\* sqrt(mean of the squared downside returns) * sqrt(252), which is > 0.0
\* exactly when one of them is not zero; the quotient is kept as its parts.
CalculateSortinoRatio(equity_curve_arg, return_ann, risk_free_rate) ==
    IF Len(equity_curve_arg) < 2
    THEN ZeroRatio
    ELSE LET returns == EquityReturns(equity_curve_arg, Len(equity_curve_arg))
             daily_risk_free == Rat(risk_free_rate.n, risk_free_rate.d * 252)
             downside_returns == DownsideReturns(returns, daily_risk_free)
         IN  IF returns = << >>
             THEN ZeroRatio
             ELSE IF downside_returns = << >>
                  THEN IF RatLess(risk_free_rate, return_ann)
                       THEN InfiniteRatio
                       ELSE ZeroRatio
                  ELSE IF \E i \in 1..Len(downside_returns) :
                              downside_returns[i].n # 0
                       THEN [kind |-> "ratio",
                             excess |-> RatAdd(return_ann,
                                               RatNeg(risk_free_rate)),
                             downside_returns |-> downside_returns]
                       ELSE ZeroRatio

EmptyInputError == [kind |-> "Err", error |-> "No data or equity curve available"]
CallbackError(hook) == [kind |-> "Err", error |-> hook]
NotReturned == [kind |-> "Running", error |-> ""]

\* A plausible slip: no guard, and an empty run reported as a flat result.
CalculateResultsEmptyIsOk ==
    [kind |-> "Ok", equity_final |-> config.initial_cash,
     return_pct |-> RatInt(0), trades |-> trades]

\* Backtest::calculate_results: the value returned.  `left` is self.trades as
\* the duration fields see it, after std::mem::take emptied it at line 322.
CalculateResults ==
    IF data = << >> \/ equity_curve = << >>
    THEN EmptyInputError
    ELSE LET start_date == data[1].timestamp
             end_date == data[Len(data)].timestamp
             final_equity == equity_curve[Len(equity_curve)][2]
             left == << >>
             durations == [i \in 1..Len(left) |-> TradeDuration(left[i])]
         IN  [kind |-> "Ok",
              start_date |-> start_date,
              end_date |-> end_date,
              duration |-> end_date - start_date,
              equity_final |-> final_equity,
              equity_peak |->
                  SeqMax([i \in 1..Len(equity_curve) |-> equity_curve[i][2]], 0),
              return_pct |->
                  Rat(final_equity - config.initial_cash, config.initial_cash),
              buy_hold_return_pct |->
                  Rat(data[Len(data)].close - data[1].close, data[1].close),
              exposure_time |-> CalculateExposureTime(data, trades),
              trades |-> trades,
              win_rate |-> WinRate(trades),
              best_trade |-> BestTrade(trades),
              worst_trade |-> WorstTrade(trades),
              avg_trade |-> AvgTrade(trades),
              profit_factor |-> ProfitFactor(trades),
              expectancy |-> AvgTrade(trades),
              max_trade_duration |-> SeqMax(durations, 0),
              avg_trade_duration |->
                  IF left = << >> THEN 0
                  ELSE SeqSum(durations) \div Len(left)]

\* ----------------------------------------------- Backtest::run, by steps
\* strategy.init(self.data)? at line 97
RunInit ==
    /\ pc = "init"
    /\ \E ok \in BOOLEAN :
          /\ init_calls' = Append(init_calls, ok)
          /\ IF ok
             THEN /\ pc' = "next"
                  /\ UNCHANGED result
             ELSE /\ pc' = "returned"
                  /\ result' = CallbackError("init")
    /\ UNCHANGED issued
    /\ UNCHANGED order_vars
    /\ UNCHANGED part_vars
    /\ UNCHANGED pair_vars
    /\ UNCHANGED << config, data, engine, equity_curve, current_bar_index,
                    index, pending, next_calls, bar_orders, bar_start >>

\* A plausible slip: the hook is handed the first bar at every turn.
NextCallFirstBar(i, ok) == [index |-> i, bar |-> data[1], ok |-> ok]

\* The call strategy.next(bar, index) of the loop's turn i, as the strategy
\* sees it, and whether it succeeded.
NextCall(i, ok) == [index |-> i, bar |-> data[i + 1], ok |-> ok]

\* A plausible slip: a failing hook is read as "no orders" and the run goes on.
RunNextSwallowsFailure ==
    /\ pc = "next"
    /\ index < Len(data)
    /\ current_bar_index' = index
    /\ \/ \E orders \in OrderLists :
             /\ Len(orders) + issued <= MaxRunOrders
             /\ issued' = issued + Len(orders)
             /\ next_calls' = Append(next_calls, NextCall(index, TRUE))
             /\ pending' = orders
             /\ bar_orders' = orders
       \/ /\ next_calls' = Append(next_calls, NextCall(index, FALSE))
          /\ pending' = << >>
          /\ bar_orders' = << >>
          /\ UNCHANGED issued
    /\ bar_start' = BarStart
    /\ pc' = "orders"
    /\ UNCHANGED result
    /\ UNCHANGED order_vars
    /\ UNCHANGED part_vars
    /\ UNCHANGED pair_vars
    /\ UNCHANGED << config, data, engine, equity_curve, index, init_calls >>

\* One turn of the for loop up to strategy.next(bar, index)?, lines 100-104
RunNext ==
    /\ pc = "next"
    /\ index < Len(data)
    /\ current_bar_index' = index
    /\ \/ \E orders \in OrderLists :
             /\ Len(orders) + issued <= MaxRunOrders
             /\ issued' = issued + Len(orders)
             /\ next_calls' = Append(next_calls, NextCall(index, TRUE))
             /\ pending' = orders
             /\ bar_orders' = orders
             /\ bar_start' = BarStart
             /\ pc' = "orders"
             /\ UNCHANGED result
       \/ /\ next_calls' = Append(next_calls, NextCall(index, FALSE))
          /\ pc' = "returned"
          /\ result' = CallbackError("next")
          /\ UNCHANGED << pending, issued, bar_orders, bar_start >>
    /\ UNCHANGED order_vars
    /\ UNCHANGED part_vars
    /\ UNCHANGED pair_vars
    /\ UNCHANGED << config, data, engine, equity_curve, index, init_calls >>

\* The same turn of the loop, with a strategy that returns orders of any type.
RunNextTyped ==
    /\ pc = "next"
    /\ index < Len(data)
    /\ current_bar_index' = index
    /\ \/ \E orders \in TypedOrderLists :
             /\ Len(orders) + issued <= MaxRunOrders
             /\ issued' = issued + Len(orders)
             /\ next_calls' = Append(next_calls, NextCall(index, TRUE))
             /\ pending' = orders
             /\ bar_orders' = orders
             /\ bar_start' = BarStart
             /\ pc' = "orders"
             /\ UNCHANGED result
       \/ /\ next_calls' = Append(next_calls, NextCall(index, FALSE))
          /\ pc' = "returned"
          /\ result' = CallbackError("next")
          /\ UNCHANGED << pending, issued, bar_orders, bar_start >>
    /\ UNCHANGED order_vars
    /\ UNCHANGED part_vars
    /\ UNCHANGED pair_vars
    /\ UNCHANGED << config, data, engine, equity_curve, index, init_calls >>

\* A plausible slip: the orders of a bar are taken from the end of the list.
RunProcessOrderLastFirst ==
    /\ pc = "orders"
    /\ pending # << >>
    /\ ProcessOrder(pending[Len(pending)], data[index + 1])
    /\ pending' = SubSeq(pending, 1, Len(pending) - 1)
    /\ UNCHANGED issued
    /\ UNCHANGED order_vars
    /\ UNCHANGED part_vars
    /\ UNCHANGED pair_vars
    /\ UNCHANGED << config, data, equity_curve, current_bar_index, pc, index,
                    result, init_calls, next_calls, bar_orders, bar_start >>

\* One turn of the inner loop, lines 107-109
RunProcessOrder ==
    /\ pc = "orders"
    /\ pending # << >>
    /\ ProcessOrder(Head(pending), data[index + 1])
    /\ pending' = Tail(pending)
    /\ UNCHANGED issued
    /\ UNCHANGED order_vars
    /\ UNCHANGED part_vars
    /\ UNCHANGED pair_vars
    /\ UNCHANGED << config, data, equity_curve, current_bar_index, pc, index,
                    result, init_calls, next_calls, bar_orders, bar_start >>

\* The rest of the loop body, lines 111-118
RunEndBar ==
    /\ pc = "orders"
    /\ pending = << >>
    /\ LET bar == data[index + 1]
       IN  /\ current_position' =
                  IF IsSome(current_position)
                  THEN Some(UpdatePrice(Unwrap(current_position), bar.close))
                  ELSE None
           /\ equity_curve' = Append(equity_curve, EquityEntry(bar))
    /\ index' = index + 1
    /\ pc' = "next"
    /\ bar_orders' = << >>
    /\ bar_start' = NoBarStart
    /\ UNCHANGED issued
    /\ UNCHANGED order_vars
    /\ UNCHANGED part_vars
    /\ UNCHANGED pair_vars
    /\ UNCHANGED << config, data, cash, trades, position_entry_bar,
                    current_bar_index, pending, result, init_calls, next_calls >>

\* self.calculate_results() at line 122, after the last bar
RunCalculateResults ==
    /\ pc = "next"
    /\ index = Len(data)
    /\ result' = CalculateResults
    /\ trades' = IF CalculateResults.kind = "Ok" THEN << >> ELSE trades
    /\ pc' = "returned"
    /\ UNCHANGED issued
    /\ UNCHANGED order_vars
    /\ UNCHANGED part_vars
    /\ UNCHANGED pair_vars
    /\ UNCHANGED << config, data, current_position, cash, equity_curve,
                    position_entry_bar, current_bar_index, index, pending,
                    init_calls, next_calls, bar_orders, bar_start >>

\* ---------------------------------------------------------------- Order
OrderStatus == {"Pending", "Filled", "Cancelled", "PartiallyFilled"}
StopLevels == {None, Some(55)}

\* Order::new.  limit, stop and timestamp are never read by fill or cancel;
\* the orders of this model are built with no tag.
OrderNew(side, order_type, size, sl, tp) ==
    [side |-> side, order_type |-> order_type, size |-> size, sl |-> sl,
     tp |-> tp, status |-> "Pending", filled_size |-> 0]

\* Order::is_long
OrderIsLong(o) == o.side = "Buy" /\ o.size > 0

\* Order::remaining_size
RemainingSize(o) == o.size - o.filled_size

\* Order::is_short
OrderIsShort(o) == o.side = "Sell" /\ o.size > 0

\* A plausible slip: the order's direction is not looked at.
OrderShouldTriggerSlLongOnly(o, current_price) ==
    IF IsSome(o.sl) THEN current_price <= Unwrap(o.sl) ELSE FALSE

\* Order::should_trigger_sl
OrderShouldTriggerSl(o, current_price) ==
    IF IsSome(o.sl)
    THEN IF OrderIsLong(o)
         THEN current_price <= Unwrap(o.sl)
         ELSE current_price >= Unwrap(o.sl)
    ELSE FALSE

\* Order::should_trigger_tp
OrderShouldTriggerTp(o, current_price) ==
    IF IsSome(o.tp)
    THEN IF OrderIsLong(o)
         THEN current_price >= Unwrap(o.tp)
         ELSE current_price <= Unwrap(o.tp)
    ELSE FALSE

\* A plausible slip: the requested size is taken as it comes, not clamped.
ActualFillSizeUnclamped(o, fill_size) == fill_size

\* What Order::fill adds to filled_size
ActualFillSize(o, fill_size) == Min(fill_size, RemainingSize(o))

\* A plausible slip: cancel does not look at the status.
CancelAnyStatus(o) == [o EXCEPT !.status = "Cancelled"]

\* Order::cancel: the order afterwards
Cancel(o) ==
    IF o.status \in {"Pending", "PartiallyFilled"}
    THEN [o EXCEPT !.status = "Cancelled"]
    ELSE o

\* Order::fill: the order afterwards
Fill(o, fill_size) ==
    IF o.status = "Cancelled"
    THEN o
    ELSE LET filled == o.filled_size + ActualFillSize(o, fill_size)
         IN  [o EXCEPT !.filled_size = filled,
                       !.status = IF filled >= o.size
                                  THEN "Filled" ELSE "PartiallyFilled"]

\* Order::fill: the value returned
FillTrade(o, fill_size, fill_price, bar_index, fill_time) ==
    IF o.status = "Cancelled"
    THEN None
    ELSE LET actual == ActualFillSize(o, fill_size)
         IN  Some(TradeNew(bar_index, RatInt(fill_price), fill_time,
                           IF OrderIsLong(o) THEN actual ELSE -actual,
                           o.sl, o.tp, None))

NoCall == [op |-> "new", fill_size |-> 0]

\* The requested fill sizes: negative, zero, and beyond any order's size.
FillSizes == (0 - 1)..(MaxOrderSize + 1)

\* Order::cancel, called
OrderCancel ==
    /\ the_order' = Cancel(the_order)
    /\ order_call' = [op |-> "cancel", fill_size |-> 0]
    /\ UNCHANGED << fill_result, positive_fills >>
    /\ UNCHANGED run_vars
    /\ UNCHANGED part_vars
    /\ UNCHANGED pair_vars

\* Order::fill(fill_size, fill_price, bar_index, fill_time).  filled_size is
\* kept above -MaxOrderSize, so that repeated negative fills stay finite.
OrderFill ==
    /\ \E fill_size \in FillSizes, fill_price \in Prices, fill_time \in StartTimes :
          /\ Fill(the_order, fill_size).filled_size >= 0 - MaxOrderSize
          /\ the_order' = Fill(the_order, fill_size)
          /\ fill_result' = FillTrade(the_order, fill_size, fill_price, 0, fill_time)
          /\ order_call' = [op |-> "fill", fill_size |-> fill_size]
          /\ positive_fills' = (positive_fills /\ fill_size > 0)
    /\ UNCHANGED run_vars
    /\ UNCHANGED part_vars
    /\ UNCHANGED pair_vars

\* The order variables while the engine runs: process_order never calls
\* fill or cancel.
OrderIdle ==
    /\ the_order = OrderNew("Buy", "Market", 0, None, None)
    /\ order_call = NoCall
    /\ fill_result = None
    /\ positive_fills = TRUE

\* The engine variables while an order is exercised on its own.
RunIdle ==
    /\ BacktestNew(<< >>, [initial_cash |-> Money(DefaultInitialCash),
                           commission |-> 0, trade_on_open |-> FALSE])
    /\ pc = "idle"
    /\ index = 0
    /\ pending = << >>
    /\ result = NotReturned
    /\ init_calls = << >>
    /\ issued = 0
    /\ next_calls = << >>
    /\ bar_orders = << >>
    /\ bar_start = NoBarStart

\* ------------------------------------------------ the parts on their own
\* A Trade, a Position, an Order's trigger predicates and the drawdown
\* metrics, each exercised by calls of its own methods.
Parts == {"trade", "position", "order", "curve"}

\* Sizes of which MaxCloses successive halves are whole: short, flat, long.
PartSizes == { k * Pow2(MaxCloses) : k \in (0 - 1)..1 }
EntryPrices == {0} \cup Prices
Marks == {50, 55, 60}
ExitTimes == {48}
ExitBars == {None, Some(1)}
Tags == {None, Some("swing")}
PortionHalves == (0 - 1)..3
CurveValues == {1, 2, 3}

PartTrades ==
    { TradeNew(0, RatInt(e), t, size, sl, tp, tag) :
        e \in EntryPrices, t \in StartTimes, size \in PartSizes,
        sl \in StopLevels, tp \in StopLevels, tag \in Tags }

PartPositions ==
    { PositionWithStops(size, e, t, sl, tp, tag) :
        size \in PartSizes, e \in Prices, t \in StartTimes,
        sl \in StopLevels, tp \in StopLevels, tag \in Tags }

PartOrders ==
    { OrderNew(side, "Market", size, sl, tp) :
        side \in OrderSide, size \in 0..MaxOrderSize,
        sl \in StopLevels, tp \in StopLevels }

\* Equity curves with positive values, one entry per bar time.
Curves ==
    UNION { { [i \in 1..n |-> << start + (i - 1) * gap, v[i] >>] :
                v \in [1..n -> CurveValues],
                start \in StartTimes, gap \in GapHours }
            : n \in 0..MaxCurveLen }

NoPartCall == [op |-> "none", args |-> << >>, value |-> << >>]
IdleTrade == TradeNew(0, RatInt(0), 0, 0, None, None, None)
IdlePosition == PositionWithStops(0, 0, 0, None, None, None)

\* The arguments of the metrics while no metric is exercised.
MetricsIdle ==
    /\ the_log = << >>
    /\ the_bars = << >>
    /\ the_return_ann = RatInt(0)

\* The part variables while the engine or an order runs.
PartsIdle ==
    /\ part = "none"
    /\ the_trade = IdleTrade
    /\ the_position = IdlePosition
    /\ the_curve = << >>
    /\ MetricsIdle
    /\ part_call = NoPartCall
    /\ calls = 0

\* Trade::close(exit_bar, exit_price, exit_time)
TradeCloseCall ==
    /\ part = "trade"
    /\ calls < MaxCloses
    /\ \E exit_bar \in ExitBars, exit_price \in Prices, exit_time \in ExitTimes :
          /\ the_trade' = TradeClose(the_trade, exit_bar, exit_price, exit_time)
          /\ part_call' = [op |-> "close",
                           args |-> << exit_bar, exit_price, exit_time >>,
                           value |-> << >>]
    /\ calls' = calls + 1
    /\ UNCHANGED << part, the_position, the_curve, metric_vars >>
    /\ UNCHANGED run_vars
    /\ UNCHANGED pair_vars
    /\ UNCHANGED order_vars

\* Trade::close_portion(portion)
TradeClosePortionCall ==
    /\ part = "trade"
    /\ calls < MaxCloses
    /\ \E h \in PortionHalves :
          /\ the_trade' = TradeAfterClosePortion(the_trade, h)
          /\ part_call' = [op |-> "close_portion", args |-> << h >>,
                           value |-> TradeClosePortion(the_trade, h)]
    /\ calls' = calls + 1
    /\ UNCHANGED << part, the_position, the_curve, metric_vars >>
    /\ UNCHANGED run_vars
    /\ UNCHANGED pair_vars
    /\ UNCHANGED order_vars

\* Trade::pl() and Trade::pl_pct()
TradePlCall ==
    /\ part = "trade"
    /\ part_call' = [op |-> "pl", args |-> << >>,
                     value |-> [pl |-> TradePl(the_trade),
                                pl_pct |-> TradePlPct(the_trade)]]
    /\ UNCHANGED << part, the_trade, the_position, the_curve, metric_vars, calls >>
    /\ UNCHANGED run_vars
    /\ UNCHANGED pair_vars
    /\ UNCHANGED order_vars

\* Position::update_price(price)
PositionUpdatePriceCall ==
    /\ part = "position"
    /\ \E price \in Marks :
          /\ the_position' = UpdatePrice(the_position, price)
          /\ part_call' = [op |-> "update_price", args |-> << price >>,
                           value |-> << >>]
    /\ UNCHANGED << part, the_trade, the_curve, metric_vars, calls >>
    /\ UNCHANGED run_vars
    /\ UNCHANGED pair_vars
    /\ UNCHANGED order_vars

\* Position::close(portion, exit_price, exit_time, exit_bar)
PositionCloseCall ==
    /\ part = "position"
    /\ calls < MaxCloses
    /\ \E h \in PortionHalves, exit_price \in Prices, exit_time \in ExitTimes,
          exit_bar \in ExitBars :
          /\ the_position' = PositionAfterClose(the_position, h)
          /\ part_call' = [op |-> "close",
                           args |-> << h, exit_price, exit_time, exit_bar >>,
                           value |-> PositionCloseTrade(the_position, h, exit_price,
                                                        exit_time, exit_bar)]
    /\ calls' = calls + 1
    /\ UNCHANGED << part, the_trade, the_curve, metric_vars >>
    /\ UNCHANGED run_vars
    /\ UNCHANGED pair_vars
    /\ UNCHANGED order_vars

\* Position::close_all(exit_price, exit_time, exit_bar): close with portion 1.0
PositionCloseAllCall ==
    /\ part = "position"
    /\ calls < MaxCloses
    /\ \E exit_price \in Prices, exit_time \in ExitTimes, exit_bar \in ExitBars :
          /\ the_position' = PositionAfterClose(the_position, 2)
          /\ part_call' = [op |-> "close_all",
                           args |-> << exit_price, exit_time, exit_bar >>,
                           value |-> PositionCloseTrade(the_position, 2, exit_price,
                                                        exit_time, exit_bar)]
    /\ calls' = calls + 1
    /\ UNCHANGED << part, the_trade, the_curve, metric_vars >>
    /\ UNCHANGED run_vars
    /\ UNCHANGED pair_vars
    /\ UNCHANGED order_vars

\* Position::pl()
PositionPlCall ==
    /\ part = "position"
    /\ part_call' = [op |-> "pl", args |-> << >>,
                     value |-> PositionPl(the_position)]
    /\ UNCHANGED << part, the_trade, the_position, the_curve, metric_vars, calls >>
    /\ UNCHANGED run_vars
    /\ UNCHANGED pair_vars
    /\ UNCHANGED order_vars

\* Position::should_trigger_sl() and Position::should_trigger_tp()
PositionTriggerCall ==
    /\ part = "position"
    /\ part_call' = [op |-> "should_trigger", args |-> << >>,
                     value |-> [sl |-> PositionShouldTriggerSl(the_position),
                                tp |-> PositionShouldTriggerTp(the_position)]]
    /\ UNCHANGED << part, the_trade, the_position, the_curve, metric_vars, calls >>
    /\ UNCHANGED run_vars
    /\ UNCHANGED pair_vars
    /\ UNCHANGED order_vars

\* Order::should_trigger_sl(current_price) and Order::should_trigger_tp
OrderTriggerCall ==
    /\ part = "order"
    /\ \E current_price \in Marks :
          part_call' = [op |-> "should_trigger", args |-> << current_price >>,
                        value |-> [sl |-> OrderShouldTriggerSl(the_order, current_price),
                                   tp |-> OrderShouldTriggerTp(the_order, current_price)]]
    /\ UNCHANGED << part, the_trade, the_position, the_curve, metric_vars, calls >>
    /\ UNCHANGED run_vars
    /\ UNCHANGED pair_vars
    /\ UNCHANGED order_vars

\* Calculations::calculate_drawdown_metrics(equity_curve)
DrawdownCall ==
    /\ part = "curve"
    /\ part_call' = [op |-> "drawdown", args |-> << >>,
                     value |-> CalculateDrawdownMetrics(the_curve)]
    /\ UNCHANGED << part, the_trade, the_position, the_curve, metric_vars, calls >>
    /\ UNCHANGED run_vars
    /\ UNCHANGED pair_vars
    /\ UNCHANGED order_vars

\* ---------------------------------------------- the metrics on their own
\* The trade statistics over a trade log, the exposure time over a bar
\* sequence and a trade log, and the risk ratios over an equity curve.
MetricParts == {"log", "bars", "returns"}

LogSizes == {1, 2, 3}
MetricExitTimes == {48, 72}
MetricGaps == {8, 24}
ReturnAnns == {Rat(0 - 1, 100), RatInt(0), RiskFreeRate, Rat(5, 100)}

\* A closed trade, as Backtest::close_position pushes it on the log
ClosedTrade(entry_price, exit_price, size, entry_time, exit_time) ==
    TradeClose(TradeNew(0, RatInt(entry_price), entry_time, size,
                        None, None, None),
               Some(1), exit_price, exit_time)

\* Trade logs of winning, flat and losing trades of three sizes.
TradeLogs ==
    UNION { [1..n -> { ClosedTrade(e, x, size, t, u) :
                          e \in Prices, x \in Prices, size \in LogSizes,
                          t \in StartTimes, u \in ExitTimes }]
            : n \in 0..MaxLogLen }

\* Trade logs of flat trades that end one or two days after their entry.
SpanLogs ==
    UNION { [1..n -> { ClosedTrade(50, 50, 1, t, u) :
                          t \in StartTimes, u \in MetricExitTimes }]
            : n \in 0..MaxLogLen }

\* Bar sequences a third of a day or a day apart.
MetricBars ==
    UNION { { [i \in 1..n |-> OHLCV(start + (i - 1) * gap, 50, 50)] :
                start \in StartTimes, gap \in MetricGaps }
            : n \in 0..MaxBars }

\* Equity curves with positive values, a third of a day or a day apart.
MetricCurves ==
    UNION { { [i \in 1..n |-> << start + (i - 1) * gap, v[i] >>] :
                v \in [1..n -> CurveValues],
                start \in StartTimes, gap \in MetricGaps }
            : n \in 0..MaxCurveLen }

\* calculate_results, lines 222-224, for a run with this equity curve: the
\* curve has one entry per bar, with the bar's timestamp
CurveDuration(equity_curve_arg) ==
    IF equity_curve_arg = << >> THEN 0
    ELSE equity_curve_arg[Len(equity_curve_arg)][1] - equity_curve_arg[1][1]

\* calculate_results, lines 256-260: return_ann is 0.0 unless years > 0.0;
\* the power of line 257 is the value `annualized`
ReturnAnn(years, annualized) ==
    IF years.n > 0 THEN annualized ELSE RatInt(0)

\* calculate_results, lines 287-295
ProfitFactorCall ==
    /\ part = "log"
    /\ part_call' = [op |-> "profit_factor", args |-> << >>,
                     value |-> ProfitFactor(the_log)]
    /\ UNCHANGED << part, the_trade, the_position, the_curve, metric_vars, calls >>
    /\ UNCHANGED run_vars
    /\ UNCHANGED pair_vars
    /\ UNCHANGED order_vars

\* Calculations::calculate_sqn(trades)
SqnCall ==
    /\ part = "log"
    /\ part_call' = [op |-> "sqn", args |-> << >>,
                     value |-> CalculateSqn(the_log)]
    /\ UNCHANGED << part, the_trade, the_position, the_curve, metric_vars, calls >>
    /\ UNCHANGED run_vars
    /\ UNCHANGED pair_vars
    /\ UNCHANGED order_vars

\* Calculations::calculate_exposure_time(data, trades)
ExposureCall ==
    /\ part = "bars"
    /\ part_call' = [op |-> "exposure_time", args |-> << >>,
                     value |-> CalculateExposureTime(the_bars, the_log)]
    /\ UNCHANGED << part, the_trade, the_position, the_curve, metric_vars, calls >>
    /\ UNCHANGED run_vars
    /\ UNCHANGED pair_vars
    /\ UNCHANGED order_vars

\* calculate_results, lines 262-275: volatility_ann and sharpe_ratio
VolatilityCall ==
    /\ part = "returns"
    /\ LET years == Years(CurveDuration(the_curve))
           volatility_ann == CalculateVolatility(the_curve, years)
       IN  part_call' =
               [op |-> "volatility", args |-> << >>,
                value |-> [volatility_ann |-> volatility_ann,
                           sharpe_ratio |->
                               SharpeRatio(the_return_ann, RiskFreeRate,
                                           volatility_ann)]]
    /\ UNCHANGED << part, the_trade, the_position, the_curve, metric_vars, calls >>
    /\ UNCHANGED run_vars
    /\ UNCHANGED pair_vars
    /\ UNCHANGED order_vars

\* calculate_results, lines 277-278: sortino_ratio
SortinoCall ==
    /\ part = "returns"
    /\ part_call' = [op |-> "sortino", args |-> << >>,
                     value |-> CalculateSortinoRatio(the_curve, the_return_ann,
                                                     RiskFreeRate)]
    /\ UNCHANGED << part, the_trade, the_position, the_curve, metric_vars, calls >>
    /\ UNCHANGED run_vars
    /\ UNCHANGED pair_vars
    /\ UNCHANGED order_vars

\* ------------------------------------------------- two runs side by side
\* GridSearchOptimizer::optimize maps a closure over the parameter
\* combinations in parallel; every call of the closure builds a strategy and
\* a Backtest of its own over the one `data` and a clone of the one config,
\* and runs it.  Here one run first executes alone, then two runs with equal
\* strategies execute side by side, their steps interleaved in any order.
\* The run that takes a step is held by the variables of Backtest::run, the
\* other one is kept in `other`, and PairSwitch exchanges the two.

\* The longest bar sequence of such runs.
MaxPairBars == 2

\* Their bars open at the lowest price and close at any.
PairBarSequences ==
    {d \in BarSequences :
        /\ Len(d) <= MaxPairBars
        /\ \A i \in 1..Len(d) : \A p \in Prices : d[i].open <= p}

\* Their strategies buy the largest size and sell the smallest, one order a
\* bar at most.
PairOrderLists ==
    {<< >>}
    \cup { << o >> : o \in {b \in StrategyOrders :
                               \A s \in Sizes :
                                   IF b.side = "Buy" THEN s <= b.size
                                                     ELSE b.size <= s} }

\* What a strategy instance answers to one Strategy::next call
Answers ==
    { [ok |-> TRUE, orders |-> orders] : orders \in PairOrderLists }
    \cup { [ok |-> FALSE, orders |-> << >>] }

\* The strategies for a bar sequence d: the outcome of Strategy::init and the
\* answer to each bar's Strategy::next
ScriptsFor(d) ==
    { s \in [init : BOOLEAN, next : [1..Len(d) -> Answers]] :
        SeqSum([i \in 1..Len(d) |-> Len(s.next[i].orders)]) <= MaxRunOrders }

NoScript == [init |-> TRUE, next |-> << >>]
NoOtherRun == [pc |-> "none"]

\* The pair variables while a single run, an order or a part is exercised.
PairIdle ==
    /\ phase = "single"
    /\ active = 1
    /\ other = NoOtherRun
    /\ strategy_script = NoScript
    /\ alone_result = NotReturned

\* Backtest::new(data, config.clone()) and the locals of run() before its
\* first step, for a run that is not the one taking steps
FreshRun(c) ==
    [config |-> c, current_position |-> None, cash |-> c.initial_cash,
     equity_curve |-> << >>, trades |-> << >>, current_bar_index |-> 0,
     position_entry_bar |-> None, pc |-> "init", index |-> 0,
     pending |-> << >>, result |-> NotReturned, init_calls |-> << >>,
     next_calls |-> << >>, issued |-> 0, bar_orders |-> << >>,
     bar_start |-> NoBarStart]

\* The Backtest and the run() locals of the run that takes steps
ThisRun ==
    [config |-> config, current_position |-> current_position, cash |-> cash,
     equity_curve |-> equity_curve, trades |-> trades,
     current_bar_index |-> current_bar_index,
     position_entry_bar |-> position_entry_bar, pc |-> pc, index |-> index,
     pending |-> pending, result |-> result, init_calls |-> init_calls,
     next_calls |-> next_calls, issued |-> issued, bar_orders |-> bar_orders,
     bar_start |-> bar_start]

\* A plausible slip: the cash is one static shared by every Backtest, so the
\* run that is resumed finds the cash the other run left.
ResumeSharedCash(run) ==
    /\ config' = run.config
    /\ current_position' = run.current_position
    /\ cash' = cash
    /\ equity_curve' = run.equity_curve
    /\ trades' = run.trades
    /\ current_bar_index' = run.current_bar_index
    /\ position_entry_bar' = run.position_entry_bar
    /\ pc' = run.pc
    /\ index' = run.index
    /\ pending' = run.pending
    /\ result' = run.result
    /\ init_calls' = run.init_calls
    /\ next_calls' = run.next_calls
    /\ issued' = run.issued
    /\ bar_orders' = run.bar_orders
    /\ bar_start' = run.bar_start

\* The next step is taken by `run`: every field of a Backtest is its own
\* (lines 68-77), none is shared with another instance
Resume(run) ==
    /\ config' = run.config
    /\ current_position' = run.current_position
    /\ cash' = run.cash
    /\ equity_curve' = run.equity_curve
    /\ trades' = run.trades
    /\ current_bar_index' = run.current_bar_index
    /\ position_entry_bar' = run.position_entry_bar
    /\ pc' = run.pc
    /\ index' = run.index
    /\ pending' = run.pending
    /\ result' = run.result
    /\ init_calls' = run.init_calls
    /\ next_calls' = run.next_calls
    /\ issued' = run.issued
    /\ bar_orders' = run.bar_orders
    /\ bar_start' = run.bar_start

\* strategy.init(self.data)? of a run whose strategy follows the script
PairRunInit ==
    /\ phase # "single"
    /\ RunInit
    /\ init_calls' = Append(init_calls, strategy_script.init)

\* strategy.next(bar, index)? of a run whose strategy follows the script
PairRunNext ==
    /\ phase # "single"
    /\ RunNext
    /\ LET answer == strategy_script.next[index + 1]
       IN  /\ next_calls'[Len(next_calls')].ok = answer.ok
           /\ answer.ok => pending' = answer.orders

\* The run executed alone has returned; the closure of optimize is now
\* called twice: two Backtest::new(data, config.clone()) over the same data
PairStart ==
    /\ phase = "alone"
    /\ pc = "returned"
    /\ phase' = "pair"
    /\ alone_result' = result
    /\ active' = 1
    /\ Resume(FreshRun(config))
    /\ other' = FreshRun(config)
    /\ UNCHANGED << data, strategy_script >>
    /\ UNCHANGED order_vars
    /\ UNCHANGED part_vars

\* The scheduler lets the other run take the next steps
PairSwitch ==
    /\ phase = "pair"
    /\ active' = 3 - active
    /\ other' = ThisRun
    /\ Resume(other)
    /\ UNCHANGED << data, strategy_script, phase, alone_result >>
    /\ UNCHANGED order_vars
    /\ UNCHANGED part_vars

\* run() is called a second time on the Backtest that has returned, with a
\* fresh strategy equal to the first: run (lines 95-123) begins with
\* strategy.init and the loop from the first bar, and writes none of the
\* fields Backtest::new set.
RunAgain ==
    /\ phase = "alone"
    /\ pc = "returned"
    /\ phase' = "again"
    /\ alone_result' = result
    /\ pc' = "init"
    /\ index' = 0
    /\ pending' = << >>
    /\ result' = NotReturned
    /\ init_calls' = << >>
    /\ next_calls' = << >>
    /\ issued' = 0
    /\ bar_orders' = << >>
    /\ bar_start' = NoBarStart
    /\ UNCHANGED << config, data, engine, equity_curve, current_bar_index >>
    /\ UNCHANGED << active, other, strategy_script >>
    /\ UNCHANGED order_vars
    /\ UNCHANGED part_vars

Init ==
    /\ \E d \in BarSequences, c \in BacktestConfig : BacktestNew(d, c)
    /\ pc = "init"
    /\ index = 0
    /\ pending = << >>
    /\ result = NotReturned
    /\ init_calls = << >>
    /\ issued = 0
    /\ next_calls = << >>
    /\ bar_orders = << >>
    /\ bar_start = NoBarStart
    /\ OrderIdle
    /\ PartsIdle
    /\ PairIdle

Next ==
    \/ RunInit
    \/ RunNext
    \/ RunProcessOrder
    \/ RunEndBar
    \/ RunCalculateResults

Spec == Init /\ [][Next]_vars

\* The run with a strategy that returns orders of any type.
NextTyped ==
    \/ RunInit
    \/ RunNextTyped
    \/ RunProcessOrder
    \/ RunEndBar
    \/ RunCalculateResults

SpecTyped == Init /\ [][NextTyped]_vars

\* An Order on its own: any sequence of fill and cancel calls.
InitOrder ==
    /\ \E side \in OrderSide, size \in 0..MaxOrderSize, sl \in StopLevels,
          tp \in StopLevels :
          the_order = OrderNew(side, "Market", size, sl, tp)
    /\ order_call = NoCall
    /\ fill_result = None
    /\ positive_fills = TRUE
    /\ RunIdle
    /\ PartsIdle
    /\ PairIdle

NextOrder ==
    \/ OrderCancel
    \/ OrderFill

SpecOrder == InitOrder /\ [][NextOrder]_vars

\* One part on its own: a Trade, a Position, an Order or an equity curve.
InitParts ==
    /\ part \in Parts
    /\ the_trade \in (IF part = "trade" THEN PartTrades ELSE {IdleTrade})
    /\ the_position \in (IF part = "position" THEN PartPositions ELSE {IdlePosition})
    /\ the_order \in (IF part = "order" THEN PartOrders
                                          ELSE {OrderNew("Buy", "Market", 0, None, None)})
    /\ the_curve \in (IF part = "curve" THEN Curves ELSE {<< >>})
    /\ MetricsIdle
    /\ part_call = NoPartCall
    /\ calls = 0
    /\ order_call = NoCall
    /\ fill_result = None
    /\ positive_fills = TRUE
    /\ RunIdle
    /\ PairIdle

NextParts ==
    \/ TradeCloseCall
    \/ TradeClosePortionCall
    \/ TradePlCall
    \/ PositionUpdatePriceCall
    \/ PositionCloseCall
    \/ PositionCloseAllCall
    \/ PositionPlCall
    \/ PositionTriggerCall
    \/ OrderTriggerCall
    \/ DrawdownCall

SpecParts == InitParts /\ [][NextParts]_vars

\* One metric on its own: over a trade log, over bars and a trade log, or
\* over an equity curve and the annualized return of its run.
InitMetrics ==
    /\ part \in MetricParts
    /\ the_trade = IdleTrade
    /\ the_position = IdlePosition
    /\ the_order = OrderNew("Buy", "Market", 0, None, None)
    /\ the_curve \in (IF part = "returns" THEN MetricCurves ELSE {<< >>})
    /\ the_log \in (IF part = "log" THEN TradeLogs
                    ELSE IF part = "bars" THEN SpanLogs ELSE {<< >>})
    /\ the_bars \in (IF part = "bars" THEN MetricBars ELSE {<< >>})
    /\ the_return_ann \in
           (IF part = "returns"
            THEN { ReturnAnn(Years(CurveDuration(the_curve)), r) :
                      r \in ReturnAnns }
            ELSE {RatInt(0)})
    /\ part_call = NoPartCall
    /\ calls = 0
    /\ order_call = NoCall
    /\ fill_result = None
    /\ positive_fills = TRUE
    /\ RunIdle
    /\ PairIdle

NextMetrics ==
    \/ ProfitFactorCall
    \/ SqnCall
    \/ ExposureCall
    \/ VolatilityCall
    \/ SortinoCall

SpecMetrics == InitMetrics /\ [][NextMetrics]_vars

\* One run alone, then two runs with equal strategies side by side.
InitPair ==
    /\ \E d \in PairBarSequences, c \in BacktestConfig : BacktestNew(d, c)
    /\ pc = "init"
    /\ index = 0
    /\ pending = << >>
    /\ result = NotReturned
    /\ init_calls = << >>
    /\ issued = 0
    /\ next_calls = << >>
    /\ bar_orders = << >>
    /\ bar_start = NoBarStart
    /\ phase = "alone"
    /\ active = 1
    /\ other = NoOtherRun
    /\ strategy_script \in ScriptsFor(data)
    /\ alone_result = NotReturned
    /\ OrderIdle
    /\ PartsIdle

NextPair ==
    \/ PairRunInit
    \/ PairRunNext
    \/ RunProcessOrder
    \/ RunEndBar
    \/ RunCalculateResults
    \/ PairStart
    \/ PairSwitch

SpecPair == InitPair /\ [][NextPair]_vars

\* One Backtest, run twice with equal strategies, the second call after the
\* first has returned.
InitRerun == InitPair

NextRerun ==
    \/ PairRunInit
    \/ PairRunNext
    \/ RunProcessOrder
    \/ RunEndBar
    \/ RunCalculateResults
    \/ RunAgain

SpecRerun == InitRerun /\ [][NextRerun]_vars

\* ======================================================================
\* The claims
\* ======================================================================

\* C1: whenever run returns Results, the equity curve has exactly one entry
\* per bar, and the i-th entry carries the i-th bar's timestamp.
C1_EquityCurveMatchesBars ==
    result.kind = "Ok" =>
        /\ Len(equity_curve) = Len(data)
        /\ \A i \in 1..Len(data) : equity_curve[i][1] = data[i].timestamp

\* A run over three bars has returned Results.
C1_Witness ==
    /\ result.kind = "Ok"
    /\ Len(data) = 3
    /\ Len(equity_curve) = 3

\* C5: init is called exactly once and before any per-bar call; the per-bar
\* hook is called for the indices 0, 1, ... in increasing order, once each,
\* with the bar at that index, and for every bar when run returns Results.
C5_HookCallOrder ==
    /\ Len(init_calls) <= 1
    /\ (pc # "init" => Len(init_calls) = 1)
    /\ (next_calls # << >> => init_calls = << TRUE >>)
    /\ Len(next_calls) <= Len(data)
    /\ \A k \in 1..Len(next_calls) :
          /\ next_calls[k].index = k - 1
          /\ next_calls[k].bar = data[k]
    /\ (result.kind = "Ok" => Len(next_calls) = Len(data))

\* The per-bar hook has been called for three bars with different closes.
C5_Witness ==
    /\ Len(next_calls) = 3
    /\ data[1].close # data[2].close
    /\ result.kind = "Ok"

\* C6: run on an empty bar sequence never calls the per-bar hook and never
\* returns Results; it returns after exactly one init call, and when that
\* call succeeded what it returns is the empty-input failure.
C6_EmptyInputFails ==
    data = << >> =>
        /\ next_calls = << >>
        /\ result.kind # "Ok"
        /\ (pc = "returned" => Len(init_calls) = 1)
        /\ (pc = "returned" /\ init_calls = << TRUE >> => result = EmptyInputError)

\* run on an empty bar sequence has returned the empty-input failure.
C6_Witness ==
    /\ data = << >>
    /\ pc = "returned"
    /\ result = EmptyInputError

\* The order the inner loop processes next, its bar, and its fill price.
HeadOrder == Head(pending)
HeadBar == data[index + 1]
HeadPrice == IF config.trade_on_open THEN HeadBar.open ELSE HeadBar.close
ProcessingSide(side) ==
    /\ pc = "orders"
    /\ pending # << >>
    /\ HeadOrder.side = side

\* C2: a Buy whose cost size * price * (1 + commission) is at most the cash
\* takes exactly that cost off the cash; a Buy that costs more is dropped:
\* the run goes on, and cash, position slot and trade log are unchanged.
C2_BuyDebitsCostOrIsDropped ==
    [][ ProcessingSide("Buy") =>
          LET cost == HeadOrder.size * HeadPrice * (100 + config.commission)
          IN  /\ pc' = "orders"
              /\ result' = result
              /\ IF cost <= cash
                 THEN cash' = cash - cost
                 ELSE /\ cash' = cash
                      /\ current_position' = current_position
                      /\ trades' = trades
      ]_vars

\* A funded Buy has been processed (a position is open, cash is lower), and
\* the next order is a Buy that costs more than the cash that is left.
C2_Witness ==
    /\ ProcessingSide("Buy")
    /\ IsSome(current_position)
    /\ cash < config.initial_cash
    /\ HeadOrder.size * HeadPrice * (100 + config.commission) > cash

\* C10: a Sell processed while no position is open changes neither cash,
\* nor the (empty) position slot, nor the trade log, and the run goes on; no
\* position of a size below or equal to zero is ever held.
C10_SellOnFlatBookIsNoOp ==
    /\ [](IsSome(current_position) => Unwrap(current_position).size > 0)
    /\ [][ ProcessingSide("Sell") /\ current_position = None =>
              /\ pc' = "orders"
              /\ result' = result
              /\ cash' = cash
              /\ current_position' = None
              /\ trades' = trades
              /\ position_entry_bar' = position_entry_bar
         ]_vars

\* A Sell is about to be processed on a flat book, after a round trip.
C10_Witness ==
    /\ ProcessingSide("Sell")
    /\ current_position = None
    /\ trades # << >>

\* The end-to-end scenario of C3: initial cash 10000, no commission, fills at
\* the close, three bars closing at 50, 60, 60, and a strategy that answers
\* Buy 100 at bar 0, nothing at bar 1 and Sell 100 at bar 2.
ScenarioInputs ==
    /\ config = [initial_cash |-> Money(10000), commission |-> 0,
                 trade_on_open |-> FALSE]
    /\ Len(data) = 3
    /\ data[1].close = 50
    /\ data[2].close = 60
    /\ data[3].close = 60
ScenarioBuy == [side |-> "Buy", order_type |-> "Market", size |-> 100]
ScenarioSell == [side |-> "Sell", order_type |-> "Market", size |-> 100]
ScenarioHeld(mark) ==
    Some([size |-> 100, entry_price |-> RatInt(50),
          entry_time |-> data[1].timestamp, current_price |-> mark])
ScenarioTrade ==
    [entry_bar |-> 0, entry_price |-> RatInt(50),
     entry_time |-> data[1].timestamp, exit_bar |-> Some(2),
     exit_price |-> Some(60), exit_time |-> Some(data[3].timestamp),
     size |-> 100, sl |-> None, tp |-> None, tag |-> None]
ScenarioCurve ==
    << << data[1].timestamp, Money(10000) >>,
       << data[2].timestamp, Money(11000) >>,
       << data[3].timestamp, Money(11000) >> >>

\* The engine at the ten points of the scenario: what run() is at, and what
\* cash, position slot, trade log and equity curve must be there.
ScenarioPoint(k) ==
    CASE k = 0 -> << "next", 0, << >>, Money(10000), None, << >>, 0 >>
      [] k = 1 -> << "orders", 0, << ScenarioBuy >>, Money(10000), None, << >>, 0 >>
      [] k = 2 -> << "orders", 0, << >>, Money(5000), ScenarioHeld(50), << >>, 0 >>
      [] k = 3 -> << "next", 1, << >>, Money(5000), ScenarioHeld(50), << >>, 1 >>
      [] k = 4 -> << "orders", 1, << >>, Money(5000), ScenarioHeld(50), << >>, 1 >>
      [] k = 5 -> << "next", 2, << >>, Money(5000), ScenarioHeld(60), << >>, 2 >>
      [] k = 6 -> << "orders", 2, << ScenarioSell >>, Money(5000), ScenarioHeld(60),
                     << >>, 2 >>
      [] k = 7 -> << "orders", 2, << >>, Money(11000), None, << ScenarioTrade >>, 2 >>
      [] k = 8 -> << "next", 3, << >>, Money(11000), None, << ScenarioTrade >>, 3 >>
      [] k = 9 -> << "returned", 3, << >>, Money(11000), None, << >>, 3 >>
ScenarioAt(k) ==
    << pc, index, pending, cash, current_position, trades, Len(equity_curve) >>
        = ScenarioPoint(k)
    /\ equity_curve = SubSeq(ScenarioCurve, 1, Len(equity_curve))

\* The Results of the scenario: one trade bought at 50 and sold at 60, size
\* 100, profit 1000; final equity 11000; a return of one tenth.
ScenarioResults ==
    /\ result.kind = "Ok"
    /\ result.trades = << ScenarioTrade >>
    /\ RatEq(TradePl(result.trades[1]), RatInt(1000))
    /\ result.equity_final = Money(11000)
    /\ RatEq(result.return_pct, Rat(1, 10))

\* C3: in the scenario the run passes through exactly these points: cash is
\* 5000 after bar 0 and 11000 after bar 2, and run returns ScenarioResults.
\* Each step of the scenario leads from one point to the next; the strategy's
\* answer is the pending list of the point reached.
C3_EndToEndScenario ==
    /\ [](ScenarioInputs /\ pc = "next" /\ index = 0 => ScenarioAt(0))
    /\ [][ ScenarioInputs =>
             \A k \in 0..8 :
                 ScenarioAt(k) /\ pc' = ScenarioPoint(k + 1)[1]
                               /\ pending' = ScenarioPoint(k + 1)[3]
                     => /\ ScenarioAt(k + 1)'
                        /\ (k = 8 => ScenarioResults')
         ]_vars

\* The scenario has run to its end and run has returned its Results.
C3_Witness ==
    /\ ScenarioInputs
    /\ ScenarioAt(9)
    /\ ScenarioResults

\* C4: a failing init hook ends the run with that failure before any per-bar
\* call; a per-bar hook failing at bar k is the last call made, ends the run
\* with that failure and with equity entries for the bars before k only; the
\* step that fails touches neither cash, position, trade log nor equity
\* curve, and nothing happens after run has returned.
C4_CallbackFailureAborts ==
    /\ [](init_calls = << FALSE >> =>
             /\ pc = "returned"
             /\ result = CallbackError("init")
             /\ next_calls = << >>)
    /\ [](\A k \in 1..Len(next_calls) :
             ~ next_calls[k].ok =>
                 /\ k = Len(next_calls)
                 /\ pc = "returned"
                 /\ result = CallbackError("next")
                 /\ pending = << >>
                 /\ Len(equity_curve) = k - 1)
    /\ [][ pc' = "returned" /\ result'.kind = "Err" =>
              UNCHANGED << cash, current_position, trades, equity_curve,
                           position_entry_bar >> ]_vars
    /\ [][ pc # "returned" ]_vars

\* The per-bar hook has failed at bar 1, with a position open since bar 0.
C4_Witness ==
    /\ result = CallbackError("next")
    /\ Len(next_calls) = 2
    /\ Len(equity_curve) = 1
    /\ IsSome(current_position)

\* The moves of an order's status that section 4.2 of the design allows.
AllowedStatusMoves ==
    { << "Pending", "PartiallyFilled" >>, << "Pending", "Filled" >>,
      << "Pending", "Cancelled" >>, << "PartiallyFilled", "Filled" >>,
      << "PartiallyFilled", "Cancelled" >> }

\* C7: under any sequence of fill and cancel calls, with any requested fill
\* sizes, every change of the status is one of the allowed moves; so Filled
\* and Cancelled are never left.
C7_StatusOnlyMovesForward ==
    [][ the_order'.status # the_order.status =>
            << the_order.status, the_order'.status >> \in AllowedStatusMoves
      ]_vars

\* C8: a fill of requested size > 0 on an order of size > 0 that is not
\* Cancelled adds exactly min(requested, size - filled_size) to filled_size;
\* while only such fills were made and the order is not Cancelled,
\* 0 <= filled_size <= size, the status is Filled exactly when filled_size =
\* size, and PartiallyFilled exactly when 0 < filled_size < size.
C8_FillAccumulatesClamped ==
    /\ [](the_order.size > 0 /\ positive_fills /\ the_order.status # "Cancelled" =>
             /\ 0 <= the_order.filled_size
             /\ the_order.filled_size <= the_order.size
             /\ (the_order.status = "Filled"
                    <=> the_order.filled_size = the_order.size)
             /\ (the_order.status = "PartiallyFilled"
                    <=> (0 < the_order.filled_size
                          /\ the_order.filled_size < the_order.size)))
    /\ [][ /\ order_call'.op = "fill"
           /\ order_call'.fill_size > 0
           /\ the_order.size > 0
           /\ the_order.status # "Cancelled"
           => the_order'.filled_size =
                  the_order.filled_size
                      + Min(order_call'.fill_size,
                            the_order.size - the_order.filled_size)
         ]_vars

\* After positive fills only, a request beyond the order's size has filled it.
C8_Witness ==
    /\ positive_fills
    /\ order_call.op = "fill"
    /\ order_call.fill_size > the_order.size
    /\ the_order.size > 1
    /\ the_order.status = "Filled"
    /\ the_order.filled_size = the_order.size

\* C9: cancel turns Pending and PartiallyFilled into Cancelled and leaves a
\* Filled or Cancelled status as it is; it changes no other field of the
\* order.  A fill on a Cancelled order returns no trade and leaves the order
\* as it is.
C9_CancelFrame ==
    [][ /\ order_call'.op = "cancel" =>
               /\ the_order'.status =
                      IF the_order.status \in {"Pending", "PartiallyFilled"}
                      THEN "Cancelled"
                      ELSE the_order.status
               /\ \A f \in (DOMAIN the_order) \ {"status"} :
                      the_order'[f] = the_order[f]
               /\ fill_result' = fill_result
        /\ order_call'.op = "fill" /\ the_order.status = "Cancelled" =>
               /\ fill_result' = None
               /\ the_order' = the_order
      ]_vars

\* A partially filled order was cancelled, and a fill was then refused.
C9_Witness ==
    /\ the_order.status = "Cancelled"
    /\ 0 < the_order.filled_size
    /\ the_order.filled_size < the_order.size
    /\ order_call.op = "fill"
    /\ order_call.fill_size > 0
    /\ fill_result = None

\* The position a processed order finds open, and the bar it was opened at:
\* the one bar whose timestamp is the position's entry time.
HeldPosition == Unwrap(current_position)
OpeningBar(position) ==
    CHOOSE k \in 0..(Len(data) - 1) : data[k + 1].timestamp = position.entry_time

\* C11: a Sell of size s processed at price p on bar i while a position of
\* size q > 0 is open closes c = min(s, q): cash grows by c * p * (1 -
\* commission); exactly one trade is appended, with the position's entry
\* price and entry time, the bar the position was opened at, size c and exit
\* (p, bar i's timestamp, i); the position is left with q - c, and the slot
\* is emptied exactly when q - c is zero.
C11_SellClosesMinOfSizes ==
    [][ ProcessingSide("Sell") /\ IsSome(current_position) =>
          LET q == HeldPosition.size
              c == IF HeadOrder.size <= q THEN HeadOrder.size ELSE q
          IN  /\ q > 0
              /\ cash' = cash + c * HeadPrice * (100 - config.commission)
              /\ Len(trades') = Len(trades) + 1
              /\ SubSeq(trades', 1, Len(trades)) = trades
              /\ LET trade == trades'[Len(trades')]
                 IN  /\ trade.entry_price = HeldPosition.entry_price
                     /\ trade.entry_time = HeldPosition.entry_time
                     /\ trade.entry_bar = OpeningBar(HeldPosition)
                     /\ trade.size = c
                     /\ trade.exit_price = Some(HeadPrice)
                     /\ trade.exit_time = Some(HeadBar.timestamp)
                     /\ trade.exit_bar = Some(index)
              /\ (current_position' = None <=> q - c = 0)
              /\ (q - c # 0 =>
                    /\ IsSome(current_position')
                    /\ Unwrap(current_position').size = q - c)
      ]_vars

\* A position opened at an earlier bar has been closed in part, at a
\* commission: the trade is in the log and the rest is still held.
C11_Witness ==
    /\ pc = "orders"
    /\ config.commission > 0
    /\ IsSome(current_position)
    /\ trades # << >>
    /\ trades[Len(trades)].exit_bar = Some(index)
    /\ trades[Len(trades)].entry_bar < index
    /\ position_entry_bar = Some(trades[Len(trades)].entry_bar)
    /\ HeldPosition.size = 50

\* C12: a funded Buy of size a at price p processed while a position of size
\* q and entry price e is open leaves a position of size q + a whose entry
\* price is (q * e + a * p) / (q + a), with the same entry time and the same
\* entry bar; a Sell smaller than the position leaves its entry price as it
\* was.
C12_ExtendAveragesEntryPrice ==
    [][ /\ ProcessingSide("Buy") /\ IsSome(current_position)
           /\ HeadOrder.size * HeadPrice * (100 + config.commission) <= cash
           => LET q == HeldPosition.size
                  e == HeldPosition.entry_price
                  a == HeadOrder.size
                  after == Unwrap(current_position')
              IN  /\ IsSome(current_position')
                  /\ after.size = q + a
                  /\ after.entry_price.n * e.d * (q + a)
                         = (q * e.n + a * HeadPrice * e.d) * after.entry_price.d
                  /\ after.entry_time = HeldPosition.entry_time
                  /\ position_entry_bar' = position_entry_bar
        /\ ProcessingSide("Sell") /\ IsSome(current_position)
           /\ HeadOrder.size < HeldPosition.size
           => /\ IsSome(current_position')
              /\ Unwrap(current_position').entry_price = HeldPosition.entry_price
      ]_vars

\* A position of 100 bought at 50 was extended by 50 bought at 60 on a later
\* bar (entry price 160/3) and then closed in part.
C12_Witness ==
    /\ pc = "orders"
    /\ IsSome(current_position)
    /\ HeldPosition.entry_price = [n |-> 160, d |-> 3]
    /\ HeldPosition.size = 100
    /\ position_entry_bar = Some(0)
    /\ index > 0
    /\ Len(trades) = 1
    /\ trades[1].entry_price = [n |-> 160, d |-> 3]

\* C13: the equity recorded for bar i is the cash left once all of bar i's
\* orders were processed, plus the open position's size times bar i's close
\* when a position is open; this for either setting of trade_on_open.  An
\* entry is recorded only when no order of the bar is left, one bar at a time.
C13_EquityIsCashPlusMarkedPosition ==
    /\ [](Len(equity_curve) = index)
    /\ [][ equity_curve' # equity_curve =>
             /\ pc = "orders"
             /\ pending = << >>
             /\ cash' = cash
             /\ Len(equity_curve') = index + 1
             /\ SubSeq(equity_curve', 1, index) = equity_curve
             /\ equity_curve'[index + 1][2] =
                    IF IsSome(current_position)
                    THEN cash + Money(HeldPosition.size * HeadBar.close)
                    ELSE cash
             /\ (IsSome(current_position') =>
                    Unwrap(current_position').current_price = HeadBar.close)
         ]_vars

\* With fills at the open, a position bought at an earlier bar is held over a
\* bar that closes at another price than it opens, and equity was recorded.
C13_Witness ==
    /\ config.trade_on_open
    /\ pc = "next"
    /\ index = 2
    /\ IsSome(current_position)
    /\ position_entry_bar = Some(0)
    /\ data[2].close # data[2].open
    /\ data[1].close # data[1].open
    /\ equity_curve[2][2] = cash + Money(HeldPosition.size * data[2].close)
    /\ equity_curve[2][2] # equity_curve[1][2]

\* The price the design gives a fill on `bar`: its open when trade_on_open is
\* set, its close otherwise.
ReferencePrice(bar) == IF config.trade_on_open THEN bar.open ELSE bar.close

\* C15: every fill is priced at the bar's open when trade_on_open is set and
\* at its close otherwise, for a Buy and for a Sell alike: a Buy is funded or
\* not, and debited, at that price, and a position it opens is entered at it;
\* a Sell's trade exits at that price and the cash it brings in is computed
\* from the trade's own exit price; every trade in the log exits at the
\* reference price of its exit bar.
C15_FillsAtReferencePrice ==
    /\ [](\A k \in 1..Len(trades) :
             trades[k].exit_price =
                 Some(ReferencePrice(data[Unwrap(trades[k].exit_bar) + 1])))
    /\ [][ /\ ProcessingSide("Buy") =>
               LET cost == HeadOrder.size * ReferencePrice(HeadBar)
                               * (100 + config.commission)
               IN  IF cost <= cash
                   THEN /\ cash' = cash - cost
                        /\ (current_position = None =>
                              Unwrap(current_position').entry_price
                                  = RatInt(ReferencePrice(HeadBar)))
                   ELSE cash' = cash /\ current_position' = current_position
           /\ ProcessingSide("Sell") /\ IsSome(current_position) =>
               LET trade == trades'[Len(trades')]
               IN  /\ trade.exit_price = Some(ReferencePrice(HeadBar))
                   /\ cash' - cash = trade.size * Unwrap(trade.exit_price)
                                         * (100 - config.commission)
         ]_vars

\* With fills at the open, a position bought at the open of one bar was sold
\* at the open of a later bar, both bars closing at another price.
C15_Witness ==
    /\ config.trade_on_open
    /\ Len(trades) = 1
    /\ trades[1].entry_bar = 0
    /\ trades[1].exit_bar = Some(1)
    /\ trades[1].entry_price = RatInt(data[1].open)
    /\ trades[1].exit_price = Some(data[2].open)
    /\ data[1].open # data[1].close
    /\ data[2].open # data[2].close

\* C14: an order of a type other than Market is not executed: processing it
\* changes neither cash, nor the position slot, nor the trade log.
C14_OnlyMarketOrdersExecute ==
    [][ pc = "orders" /\ pending # << >> /\ HeadOrder.order_type # "Market" =>
            /\ cash' = cash
            /\ current_position' = current_position
            /\ trades' = trades
      ]_vars

\* C16: once a Trade's exit fields are set, no later call on it (another
\* close, a close_portion) changes its exit price, exit time, exit bar or
\* size.
C16_ClosedTradeIsFinal ==
    [][ part = "trade" /\ IsSome(the_trade.exit_price) =>
            /\ the_trade'.exit_price = the_trade.exit_price
            /\ the_trade'.exit_time = the_trade.exit_time
            /\ the_trade'.exit_bar = the_trade.exit_bar
            /\ the_trade'.size = the_trade.size
      ]_vars

\* C17: Trade::pl and Trade::pl_pct are zero while the exit price is unset;
\* once it is set, pl is (exit - entry) * size for a long trade and
\* (entry - exit) * |size| for a short one, which is what Position::pl gives
\* for a position of that size and entry price marked at the exit price.
C17_TradePlIsDirectionAware ==
    part = "trade" /\ part_call.op = "pl" =>
        LET t == the_trade
            e == t.entry_price
            v == part_call.value
        IN  IF t.exit_price = None
            THEN v.pl = RatInt(0) /\ v.pl_pct = RatInt(0)
            ELSE LET exit == Unwrap(t.exit_price)
                 IN  /\ (t.size > 0 =>
                           v.pl.n * e.d = (exit * e.d - e.n) * t.size * v.pl.d)
                     /\ (t.size < 0 =>
                           v.pl.n * e.d = (e.n - exit * e.d) * (0 - t.size) * v.pl.d)
                     /\ RatEq(v.pl, PositionPl([size |-> t.size,
                                                entry_price |-> e,
                                                current_price |-> exit]))

\* The profit of a short trade closed below its entry price has been asked.
C17_Witness ==
    /\ part = "trade"
    /\ part_call.op = "pl"
    /\ the_trade.size < 0
    /\ the_trade.entry_price = RatInt(60)
    /\ the_trade.exit_price = Some(50)
    /\ part_call.value.pl = RatInt(10 * (0 - the_trade.size))

\* The fraction of a close, in halves, clamped to [0, 1].
ClampedHalves(h) == IF h < 0 THEN 0 ELSE IF h > 2 THEN 2 ELSE h

\* C18: Position::close with fraction f takes clamp(f, 0, 1) * size off the
\* position and returns a closed Trade of exactly that size (returned size +
\* size left = size before) with the position's entry price, entry time,
\* stop-loss, take-profit and tag and with the exit price, time and bar
\* given; close_all is close with fraction 1 and leaves size zero; nothing
\* but the size of the position changes.
C18_PositionCloseSplitsSize ==
    [][ part = "position" /\ part_call'.op \in {"close", "close_all"} =>
          LET all == part_call'.op = "close_all"
              a == part_call'.args
              h == IF all THEN 2 ELSE a[1]
              exit_price == IF all THEN a[1] ELSE a[2]
              exit_time == IF all THEN a[2] ELSE a[3]
              exit_bar == IF all THEN a[3] ELSE a[4]
              trade == part_call'.value
              before == the_position
              after == the_position'
          IN  /\ 2 * (before.size - after.size) = ClampedHalves(h) * before.size
              /\ 2 * trade.size = ClampedHalves(h) * before.size
              /\ trade.size + after.size = before.size
              /\ trade.entry_price = before.entry_price
              /\ trade.entry_time = before.entry_time
              /\ trade.sl = before.sl
              /\ trade.tp = before.tp
              /\ trade.tag = before.tag
              /\ trade.exit_price = Some(exit_price)
              /\ trade.exit_time = Some(exit_time)
              /\ trade.exit_bar = exit_bar
              /\ (all => after.size = 0)
              /\ after = [before EXCEPT !.size = after.size]
      ]_vars

\* Half of a short position that carries both levels and a tag has been
\* closed: the trade returned and the position are of the same size.
C18_Witness ==
    /\ part = "position"
    /\ part_call.op = "close"
    /\ part_call.args[1] = 1
    /\ the_position.size < 0
    /\ part_call.value.size = the_position.size
    /\ IsSome(the_position.sl)
    /\ IsSome(the_position.tp)
    /\ IsSome(the_position.tag)
    /\ part_call.value.tag = the_position.tag

\* C19: for a long order or position the stop-loss predicate holds exactly
\* when a stop-loss level is set and price <= level, the take-profit
\* predicate exactly when a take-profit level is set and price >= level; for
\* a short one the inequalities are the other way round; with no level set
\* the predicate is false.  A position is asked at its own mark price.
C19_TriggersAreDirectionAware ==
    /\ part = "order" /\ part_call.op = "should_trigger" =>
          LET o == the_order
              price == part_call.args[1]
              v == part_call.value
              long == o.side = "Buy" /\ o.size > 0
              short == o.side = "Sell" /\ o.size > 0
          IN  /\ (long => /\ v.sl <=> (IsSome(o.sl) /\ price <= Unwrap(o.sl))
                          /\ v.tp <=> (IsSome(o.tp) /\ price >= Unwrap(o.tp)))
              /\ (short => /\ v.sl <=> (IsSome(o.sl) /\ price >= Unwrap(o.sl))
                           /\ v.tp <=> (IsSome(o.tp) /\ price <= Unwrap(o.tp)))
              /\ (o.sl = None => ~ v.sl)
              /\ (o.tp = None => ~ v.tp)
    /\ part = "position" /\ part_call.op = "should_trigger" =>
          LET q == the_position
              price == q.current_price
              v == part_call.value
          IN  /\ (q.size > 0 => /\ v.sl <=> (IsSome(q.sl) /\ price <= Unwrap(q.sl))
                                /\ v.tp <=> (IsSome(q.tp) /\ price >= Unwrap(q.tp)))
              /\ (q.size < 0 => /\ v.sl <=> (IsSome(q.sl) /\ price >= Unwrap(q.sl))
                                /\ v.tp <=> (IsSome(q.tp) /\ price <= Unwrap(q.tp)))
              /\ (q.sl = None => ~ v.sl)
              /\ (q.tp = None => ~ v.tp)

\* A short order with both levels set was asked at a price above them: its
\* stop-loss triggers, its take-profit does not.
C19_Witness ==
    /\ part = "order"
    /\ part_call.op = "should_trigger"
    /\ the_order.side = "Sell"
    /\ the_order.size > 0
    /\ IsSome(the_order.sl)
    /\ IsSome(the_order.tp)
    /\ part_call.args[1] > Unwrap(the_order.sl)
    /\ part_call.value.sl
    /\ ~ part_call.value.tp

\* Whether the equity values of a curve never fall.
NonDecreasing(curve) ==
    \A i \in 1..(Len(curve) - 1) : curve[i][2] <= curve[i + 1][2]

\* C20: for an equity curve of positive values max_drawdown <= 0; for a curve
\* whose values never fall, equal neighbours included, max_drawdown and
\* avg_drawdown are both zero.
C20_DrawdownBounds ==
    part = "curve" /\ part_call.op = "drawdown" =>
        LET v == part_call.value
        IN  /\ v.max_drawdown.n <= 0
            /\ (NonDecreasing(the_curve) =>
                   /\ v.max_drawdown.n = 0
                   /\ v.avg_drawdown.n = 0)

\* The metrics of a curve that stays level and then rises have been computed.
C20_Witness ==
    /\ part = "curve"
    /\ part_call.op = "drawdown"
    /\ Len(the_curve) = MaxCurveLen
    /\ NonDecreasing(the_curve)
    /\ the_curve[1][2] = the_curve[2][2]
    /\ the_curve[2][2] < the_curve[3][2]
    /\ part_call.value.max_drawdown = RatInt(0)

\* ------------------------------------------------------------------ C21
\* The spans during which the run held a position: one per trade of the
\* returned log, from its entry to its exit, and one for a position still
\* open at the last bar.
OpenSpans ==
    {<< result.trades[i].entry_time, Unwrap(result.trades[i].exit_time) >> :
        i \in 1..Len(result.trades)}
    \cup (IF IsSome(current_position)
          THEN {<< Unwrap(current_position).entry_time, result.end_date >>}
          ELSE {})

\* The whole days during which a position was open.  The engine holds one
\* position at a time, so spans that begin at different bars do not overlap,
\* and the spans that begin at one bar are covered by the longest of them.
OpenDays ==
    SeqSum([i \in 1..Len(data) |->
               LET from == {sp \in OpenSpans : sp[1] = data[i].timestamp}
               IN  IF from = {} THEN 0
                   ELSE NumDays((CHOOSE sp \in from :
                                    \A span \in from : span[2] <= sp[2])[2]
                                - data[i].timestamp)])

\* C21: in the Results of every run, exposure_time is the fraction of the
\* elapsed days during which a position was open.
C21_ExposureIsOpenFraction ==
    (pc = "returned" /\ result.kind = "Ok" /\ NumDays(result.duration) > 0)
    => RatEq(result.exposure_time, Rat(OpenDays, NumDays(result.duration)))

\* ------------------------------------------------------------------ C22
\* TradeDuration over the trades of the returned log
ReturnedDurations ==
    [i \in 1..Len(result.trades) |-> TradeDuration(result.trades[i])]

\* C22: in the Results of every run, max_trade_duration and
\* avg_trade_duration are the maximum and the mean of exit_time - entry_time
\* over the trades of the returned log.
C22_DurationsMatchLog ==
    (pc = "returned" /\ result.kind = "Ok")
    => /\ result.max_trade_duration = SeqMax(ReturnedDurations, 0)
       /\ result.avg_trade_duration =
              IF result.trades = << >> THEN 0
              ELSE SeqSum(ReturnedDurations) \div Len(result.trades)

\* ------------------------------------------------------------------ C23
\* The realized P&L of the trades of the returned log
ReturnedPls == TradePls(result.trades)

\* v is the largest (smallest, with the order reversed) value of a sequence
IsMaxOf(v, s) ==
    /\ \E i \in 1..Len(s) : RatEq(v, s[i])
    /\ \A i \in 1..Len(s) : ~RatLess(v, s[i])
IsMinOf(v, s) ==
    /\ \E i \in 1..Len(s) : RatEq(v, s[i])
    /\ \A i \in 1..Len(s) : ~RatLess(s[i], v)

\* C23: in the Results of every run with a non-empty log, best_trade is the
\* largest and worst_trade the smallest realized P&L of the log and avg_trade
\* (expectancy) is their mean; with an empty log all three are zero.
C23_BestWorstAvgOfLog ==
    (pc = "returned" /\ result.kind = "Ok")
    => IF result.trades = << >>
       THEN /\ result.best_trade = RatInt(0)
            /\ result.worst_trade = RatInt(0)
            /\ result.avg_trade = RatInt(0)
            /\ result.expectancy = RatInt(0)
       ELSE /\ IsMaxOf(result.best_trade, ReturnedPls)
            /\ IsMinOf(result.worst_trade, ReturnedPls)
            /\ RatEq(result.avg_trade,
                     Rat(RatSum(ReturnedPls).n,
                         RatSum(ReturnedPls).d * Len(ReturnedPls)))
            /\ result.expectancy = result.avg_trade

\* ------------------------------------------------------------------ C24
\* The P&L of the trades of the log handed to the metric: whole numbers,
\* since the log's trades are long and entered at whole prices.
LogPls ==
    [i \in 1..Len(the_log) |->
        (Unwrap(the_log[i].exit_price) - the_log[i].entry_price.n)
        * the_log[i].size]
LogProfit == SeqSum([i \in 1..Len(the_log) |-> Max(LogPls[i], 0)])
LogLoss == SeqSum([i \in 1..Len(the_log) |-> Max(0 - LogPls[i], 0)])

\* C24: profit_factor is infinite for a log with a winning and no losing
\* trade, zero for a log with neither (the empty log included), and gross
\* profit over gross loss for every other log.
C24_ProfitFactorCases ==
    (part = "log" /\ part_call.op = "profit_factor")
    => /\ (LogProfit > 0 /\ LogLoss = 0) => part_call.value = Infinity
       /\ (LogProfit = 0 /\ LogLoss = 0) => part_call.value = RatInt(0)
       /\ LogLoss > 0 => /\ part_call.value.d > 0
                         /\ part_call.value.n * LogLoss
                                = LogProfit * part_call.value.d

\* The profit factor of a log with two winning trades and a losing one: 3/2.
C24_Witness ==
    /\ part = "log"
    /\ part_call.op = "profit_factor"
    /\ Len(the_log) = 3
    /\ LogPls = << 10, 0 - 20, 20 >>
    /\ part_call.value = Rat(3, 2)

\* ------------------------------------------------------------------ C25
\* Every entry of the curve handed to the metric holds the same equity.
FlatCurve ==
    \A i, j \in 1..Len(the_curve) : the_curve[i][2] = the_curve[j][2]

\* C25: a flat equity curve has volatility_ann 0 and sharpe_ratio 0, and
\* sharpe_ratio is 0 whenever volatility_ann is 0.
C25_ZeroVolatilityZeroSharpe ==
    (part = "returns" /\ part_call.op = "volatility")
    => /\ FlatCurve => /\ part_call.value.volatility_ann = SqrtOf(RatInt(0))
                       /\ part_call.value.sharpe_ratio = ZeroRatio
       /\ part_call.value.volatility_ann.sqrt_of.n = 0
              => part_call.value.sharpe_ratio = ZeroRatio

\* A flat curve over three days of a run whose annualized return is above
\* the risk-free rate: the quotient would divide by zero.
C25_Witness ==
    /\ part = "returns"
    /\ part_call.op = "volatility"
    /\ Len(the_curve) = MaxCurveLen
    /\ FlatCurve
    /\ CurveDuration(the_curve) >= 24
    /\ RatLess(RiskFreeRate, the_return_ann)
    /\ part_call.value.sharpe_ratio = ZeroRatio

\* ------------------------------------------------------------------ C26
\* C26: sqn is zero for a log of fewer than two trades and for a log whose
\* trades all have the same P&L.
C26_SqnZeroOnIdenticalPl ==
    (part = "log" /\ part_call.op = "sqn")
    => ((Len(the_log) < 2
         \/ \A i, j \in 1..Len(the_log) : LogPls[i] = LogPls[j])
        => part_call.value = ZeroRatio)

\* ------------------------------------------------------------------ C27
\* The whole days between the first and the last bar handed to the metric
BarsDays ==
    NumDays(the_bars[Len(the_bars)].timestamp - the_bars[1].timestamp)

\* C27: over one bar, or over bars whose first and last timestamps are less
\* than a whole day apart, exposure_time is 0 whatever the trade log holds.
C27_NoDaysNoExposure ==
    (part = "bars" /\ part_call.op = "exposure_time")
    => ((Len(the_bars) = 1 \/ (the_bars # << >> /\ BarsDays = 0))
        => part_call.value = RatInt(0))

\* Three bars a third of a day apart and a log of one trade, which leaves
\* the loop in a position: exposure_time is 0.
C27_Witness ==
    /\ part = "bars"
    /\ part_call.op = "exposure_time"
    /\ Len(the_bars) = 3
    /\ BarsDays = 0
    /\ Len(the_log) = 1
    /\ part_call.value = RatInt(0)

\* ------------------------------------------------------------------ C28
\* The entries of the curve handed to the metric whose return over the entry
\* before lies below the daily risk-free rate, (2/100) / 252 = 1/12600
DownsideEntries ==
    {i \in 2..Len(the_curve) :
        12600 * (the_curve[i][2] - the_curve[i - 1][2]) < the_curve[i - 1][2]}

\* The k-th of them, in the order of the curve
DownsideEntry(k) ==
    CHOOSE i \in DownsideEntries :
        Cardinality({j \in DownsideEntries : j <= i}) = k

RunningPeak(i) ==
    CHOOSE v \in {the_curve[j][2] : j \in 1..i} :
        \A j \in 1..i : the_curve[j][2] <= v

\* (equity - running peak) / running peak at the i-th entry
DrawdownAt(i) ==
    Rat(the_curve[i][2] - RunningPeak(i), RunningPeak(i))

\* C30: max_drawdown is the smallest (equity - running peak) / running peak
\* over the entries of the curve, and zero if no entry lies below its running
\* peak.
C30_MaxDrawdownIsDeepest ==
    (part = "curve" /\ part_call.op = "drawdown")
    => IF \A i \in 1..Len(the_curve) : the_curve[i][2] = RunningPeak(i)
       THEN part_call.value.max_drawdown = RatInt(0)
       ELSE /\ \E i \in 1..Len(the_curve) :
                  RatEq(part_call.value.max_drawdown, DrawdownAt(i))
            /\ \A i \in 1..Len(the_curve) :
                  ~RatLess(DrawdownAt(i), part_call.value.max_drawdown)

\* A fall of one half from the first peak, a new peak, and a fall of two
\* thirds from that: max_drawdown is -2/3.
C30_Witness ==
    /\ part = "curve"
    /\ part_call.op = "drawdown"
    /\ Len(the_curve) = 4
    /\ << the_curve[1][2], the_curve[2][2], the_curve[3][2], the_curve[4][2] >>
           = << 2, 1, 3, 1 >>
    /\ part_call.value.max_drawdown = Rat(0 - 2, 3)

C31_EveryExcursionCounted ==
    (part = "curve" /\ part_call.op = "drawdown"
        /\ RatLess(part_call.value.max_drawdown, RatInt(0)))
    => /\ RatLess(part_call.value.avg_drawdown, RatInt(0))
       /\ ~RatLess(part_call.value.avg_drawdown, part_call.value.max_drawdown)

\* ------------------------------------------------------------------ C32
\* The durations the metric recorded for the curve handed to it: those pushed
\* at a new peak and the one pushed after the loop.
RecordedDurations ==
    LET acc == DrawdownLoop(the_curve, Len(the_curve))
    IN  IF RatLess(acc.current_drawdown, RatInt(0))
        THEN Append(acc.dd_durations, acc.current_dd_duration)
        ELSE acc.dd_durations

\* C32: max_drawdown_duration is at least avg_drawdown_duration and at least
\* the duration of every recorded excursion.
C32_MaxDurationIsLongest ==
    (part = "curve" /\ part_call.op = "drawdown" /\ Len(the_curve) >= 2)
    => /\ part_call.value.max_dd_duration >= part_call.value.avg_dd_duration
       /\ \A i \in 1..Len(RecordedDurations) :
              part_call.value.max_dd_duration >= RecordedDurations[i]


\* ------------------------------------------------------------------ C33
\* What an order of size s costs to buy at this bar's reference price
BarCost(s) == s * ReferencePrice(data[index + 1]) * (100 + config.commission)

\* The hook returned `first` then `second`, both of size s, on a flat book
\* that can pay for s, and both have been processed.
ProcessedPair(first, second, s) ==
    /\ pc = "orders"
    /\ pending = << >>
    /\ Len(bar_orders) = 2
    /\ bar_orders[1].side = first /\ bar_orders[1].size = s
    /\ bar_orders[2].side = second /\ bar_orders[2].size = s
    /\ bar_start.current_position = None
    /\ BarCost(s) <= bar_start.cash

\* The trades of the log closed before bar i
ClosedBefore(i) ==
    Cardinality({k \in 1..Len(trades) : Unwrap(trades[k].exit_bar) < i})

\* C33: the orders a hook call returned are processed one at a time in list
\* order, each on the cash and position the one before left: the orders
\* still to process are the tail of the list; on a flat book [Buy s, Sell s]
\* records one trade of size s with entry bar = exit bar = this bar and leaves
\* the book flat, while [Sell s, Buy s] records no trade and leaves a
\* position of size s opened at this bar; and a bar starts from the cash,
\* position and trades the bar before left, the first from the initial cash
\* and a flat book.
C33_OrdersInListOrder ==
    pc = "orders" =>
        /\ pending = SubSeq(bar_orders, Len(bar_orders) - Len(pending) + 1,
                            Len(bar_orders))
        /\ \A s \in Sizes :
              /\ ProcessedPair("Buy", "Sell", s) =>
                    /\ current_position = None
                    /\ position_entry_bar = None
                    /\ Len(trades) = bar_start.trades + 1
                    /\ trades[Len(trades)].size = s
                    /\ trades[Len(trades)].entry_bar = index
                    /\ trades[Len(trades)].exit_bar = Some(index)
                    /\ cash = bar_start.cash - BarCost(s)
                              + s * ReferencePrice(data[index + 1])
                                  * (100 - config.commission)
              /\ ProcessedPair("Sell", "Buy", s) =>
                    /\ Len(trades) = bar_start.trades
                    /\ IsSome(current_position)
                    /\ Unwrap(current_position).size = s
                    /\ position_entry_bar = Some(index)
                    /\ cash = bar_start.cash - BarCost(s)
        /\ bar_start.trades = ClosedBefore(index)
        /\ IF index = 0
           THEN /\ bar_start.cash = config.initial_cash
                /\ bar_start.current_position = None
           ELSE equity_curve[index][2] =
                    bar_start.cash
                    + (IF IsSome(bar_start.current_position)
                       THEN Money(Unwrap(bar_start.current_position).size
                                  * data[index].close)
                       ELSE 0)

\* At the second bar or later, on a flat book, a Buy and then a Sell of the
\* same size have been processed and the trade of the bar is the log.
C33_Witness ==
    /\ index >= 1
    /\ \E s \in Sizes : ProcessedPair("Buy", "Sell", s)
    /\ Len(trades) = 1
    /\ trades[Len(trades)].entry_bar = index
    /\ trades[Len(trades)].exit_bar = Some(index)


\* ------------------------------------------------------------------ C34
\* The slot is empty or holds a position of positive size, and the entry bar
\* is recorded exactly when the slot is not empty.
SinglePosition ==
    /\ IsSome(current_position) => HeldPosition.size > 0
    /\ IsSome(position_entry_bar) <=> IsSome(current_position)

\* C34: at every point of a run the position slot is empty or holds a
\* position of size > 0, and position_entry_bar is set exactly when the slot
\* is not empty; a Sell larger than the open position closes the open size
\* only: the trade has that size, the cash grows by its proceeds, and the
\* slot is left empty, with no position of the excess.
C34_SinglePositionSlot ==
    /\ SinglePosition
    /\ [][ /\ SinglePosition'
           /\ (ProcessingSide("Sell") /\ IsSome(current_position)
                  /\ HeadOrder.size > HeldPosition.size) =>
                 /\ trades'[Len(trades')].size = HeldPosition.size
                 /\ cash' = cash + HeldPosition.size * HeadPrice
                                       * (100 - config.commission)
                 /\ current_position' = None
                 /\ position_entry_bar' = None
       ]_vars

\* A position of size 50 was closed by a Sell of 100: one trade of size 50,
\* an empty slot.
C34_Witness ==
    /\ pc = "orders"
    /\ bar_orders # << >>
    /\ pending = << >>
    /\ bar_orders[Len(bar_orders)].side = "Sell"
    /\ bar_orders[Len(bar_orders)].size = 100
    /\ trades # << >>
    /\ trades[Len(trades)].size = 50
    /\ trades[Len(trades)].exit_bar = Some(index)
    /\ Len(trades) = bar_start.trades + 1
    /\ current_position = None
    /\ position_entry_bar = None


\* ------------------------------------------------------------------ C35
\* C35: with initial_cash > 0, a commission rate between 0 and 1, positive
\* prices and positive order sizes, the cash is never negative, whatever the
\* strategy orders.
C35_CashNeverNegative ==
    /\ config.initial_cash > 0
    /\ config.commission >= 0 /\ config.commission <= 100
    /\ cash >= 0

\* Two Buys have taken the whole cash, to the last hundredth, and a third
\* Buy found nothing left to pay with.
C35_Witness ==
    /\ pc = "orders"
    /\ pending = << >>
    /\ cash = 0
    /\ issued = 3
    /\ bar_orders # << >>
    /\ bar_orders[Len(bar_orders)].side = "Buy"
    /\ bar_start.cash = 0
    /\ IsSome(current_position)
    /\ HeldPosition.size = 200


\* ------------------------------------------------------------------ C36
\* The trade log of the run: self.trades, and the Results' list once run has
\* returned them.
TradeLog ==
    IF pc = "returned" /\ result.kind = "Ok" THEN result.trades ELSE trades

\* The units the book accounts for: the sizes of the trades of the log plus
\* the size of the open position.
UnitsHeldOrSold ==
    SeqSum([k \in 1..Len(TradeLog) |-> TradeLog[k].size])
    + (IF IsSome(current_position) THEN HeldPosition.size ELSE 0)

\* The size this step buys: that of the order being processed if it is a Buy
\* the cash covers, and zero otherwise.
UnitsBought ==
    IF ProcessingSide("Buy") /\ BarCost(HeadOrder.size) <= cash
    THEN HeadOrder.size
    ELSE 0

\* C36: the sizes of the funded Buys add up to the sizes of the trades of the
\* log plus the size of the open position: both are zero when the run starts,
\* a funded Buy adds its size to both, and no other step changes either.
C36_UnitsAreConserved ==
    /\ UnitsHeldOrSold = 0
    /\ [][UnitsHeldOrSold' = UnitsHeldOrSold + UnitsBought]_vars

\* Two funded Buys of 100 and 50, then a Sell of 100: one trade of 100 in
\* the log and 50 still held.
C36_Witness ==
    /\ pc = "orders"
    /\ pending = << >>
    /\ issued = 3
    /\ Len(trades) = 1
    /\ trades[1].size = 100
    /\ IsSome(current_position)
    /\ HeldPosition.size = 50
    /\ UnitsHeldOrSold = 150


\* ------------------------------------------------------------------ C37
\* Position::pl of the open position at the close of the bar just recorded,
\* zero without a position
UnrealizedPl ==
    IF IsSome(current_position)
    THEN PositionPl(UpdatePrice(HeldPosition, data[index].close))
    ELSE RatInt(0)

\* The sum of Trade::pl over the trades recorded so far
RealizedPl == RatSum(TradePls(trades))

RecordedTrade(trade) ==
    /\ IsSome(trade.exit_price)
    /\ IsSome(trade.exit_time)
    /\ IsSome(trade.exit_bar)
    /\ trade.size > 0
    /\ 0 <= trade.entry_bar
    /\ trade.entry_bar <= Unwrap(trade.exit_bar)
    /\ Unwrap(trade.exit_bar) < Len(data)
    /\ trade.entry_time <= Unwrap(trade.exit_time)

\* Every trade of a log is a recorded trade, and the exit bars never fall
\* along the log.
WellFormedLog(log) ==
    /\ \A k \in 1..Len(log) : RecordedTrade(log[k])
    /\ \A k \in 1..(Len(log) - 1) :
          Unwrap(log[k].exit_bar) <= Unwrap(log[k + 1].exit_bar)

\* C38: the trade log only grows, its entries staying as they are; every
\* trade in it is closed, has size > 0, 0 <= entry_bar <= exit_bar < number
\* of bars and entry_time <= exit_time, and the exit bars never fall along
\* the log; the Results' trade list is this log, in order.
C38_TradeLogWellFormed ==
    /\ TradeLog = << >>
    /\ [][ /\ WellFormedLog(TradeLog')
           /\ Len(TradeLog') >= Len(TradeLog)
           /\ SubSeq(TradeLog', 1, Len(TradeLog)) = TradeLog
           /\ (pc # "returned" /\ pc' = "returned" /\ result'.kind = "Ok")
                 => result'.trades = trades
       ]_vars

\* A run has returned a log of two trades, the first entered and left at
\* different bars, the second left at a later bar still.
C38_Witness ==
    /\ pc = "returned"
    /\ result.kind = "Ok"
    /\ Len(result.trades) = 2
    /\ result.trades[1].entry_bar < Unwrap(result.trades[1].exit_bar)
    /\ Unwrap(result.trades[1].exit_bar) < Unwrap(result.trades[2].exit_bar)
    /\ result.trades[1].entry_time < Unwrap(result.trades[1].exit_time)


\* ------------------------------------------------------------------ C39
\* C39: a second call of run on the same Backtest, with a fresh strategy
\* equal to the first, starts from the initial cash, a flat book, an empty
\* trade log and an empty equity curve, and returns what the first call
\* returned.
C39_RunIsRepeatable ==
    phase = "again" =>
        /\ pc = "init" =>
              /\ cash = config.initial_cash
              /\ current_position = None
              /\ trades = << >>
              /\ equity_curve = << >>
        /\ pc = "returned" => result = alone_result

====
